---------------------------- MODULE Spec2Model ----------------------------
(***************************************************************************)
(* Argument binding and wire encoding of sqlx (PostgreSQL and MySQL         *)
(* drivers): the server-typed wire buffer with its snapshot/rollback,       *)
(* deferred patches and type holes, the null-marker wire state with its     *)
(* null bitmap, and placeholder expansion over an argument bag.             *)
(***************************************************************************)
EXTENDS Integers, Sequences, FiniteSets, TLC

VARIABLES
    pg,         \* PgArgumentsInner { types, buffer: PgArgumentBuffer }
    pg_ret,     \* what the last PgArgumentsInner::add / add_ref call returned
    bind,       \* position of the bind that runs apply_patches on pg
    conn,       \* the PgConnection as the bind sees it: lookups asked, bytes sent
    my,         \* MySqlArgumentsPositional { values, types, null_bitmap }
    my_ret,     \* what the last MySqlArgumentsPositional::add call returned
    bit_map,    \* a NullBitMap { bytes, length } pushed to directly
    pushed,     \* the is-null flags pushed to bit_map, in order
    args,       \* argument bag { positional, named } of the facade request
    req,        \* the facade request: backend, parsed query, what sql_and_args returned
    calls,      \* the add / add_named calls made on the bag, in order
    gk,         \* get_kind calls sharing one has_expansion flag, and the flag
    desc,       \* a describe / column conversion of the facade and its result
    fm,         \* a fetch_many stream of the facade: backend items, items yielded
    MASTER_POOL,\* the static OnceLock<Pool<MySql>> of the MySQL test support
    test        \* the threads running test_context, each with its position

vars == <<pg, pg_ret, bind, conn, my, my_ret, bit_map, pushed, args, req,
          calls, gk, desc, fm, MASTER_POOL, test>>

(***************************************************************************)
(* Bounds of the model.                                                    *)
(***************************************************************************)
MaxPgArgs == 3
MaxMyArgs == 9
MaxFlags == 9
MaxPositional == 1
MaxOccurrences == 3
MaxCalls == 3
MaxKindCalls == 2
MaxColumns == 2
MaxParameters == 2
MaxItems == 3
MaxEncoded == 8
MaxThreads == 3

(***************************************************************************)
(* usize values.  Integers are kept within 32 bits here, so a usize is      *)
(* kept in two limbs: hi counts whole blocks of i32::MAX + 1 bytes and      *)
(* lo is in 0 .. i32::MAX.                                                  *)
(***************************************************************************)
I32_MAX == 2147483647

USize(n) == [hi |-> 0, lo |-> n]

USizeHuge == [hi |-> 1, lo |-> 0]

USizeAdd(a, b) ==
    IF a.lo > I32_MAX - b.lo
    THEN [hi |-> a.hi + b.hi + 1, lo |-> a.lo - (I32_MAX - b.lo) - 1]
    ELSE [hi |-> a.hi + b.hi, lo |-> a.lo + b.lo]

\* a - b for a >= b
USizeSub(a, b) ==
    IF a.lo >= b.lo
    THEN [hi |-> a.hi - b.hi, lo |-> a.lo - b.lo]
    ELSE [hi |-> a.hi - b.hi - 1, lo |-> (I32_MAX - b.lo) + a.lo + 1]

USizeLe(a, b) == a.hi < b.hi \/ (a.hi = b.hi /\ a.lo <= b.lo)

(***************************************************************************)
(* Vec<u8>.  An element 0 .. 255 is one byte; the element Block stands for  *)
(* a run of i32::MAX + 1 zero bytes (a value too large for the protocol).   *)
(***************************************************************************)
Block == 255 + 1

ElemSize(e) == IF e = Block THEN USizeHuge ELSE USize(1)

\* Vec::len: the sizes of the elements added up (the single bytes of a buffer
\* of this model never fill a block, so the low limb does not carry)
VecLen(v) ==
    [hi |-> Cardinality({i \in 1..Len(v) : ElemSize(v[i]) = USizeHuge}),
     lo |-> Cardinality({i \in 1..Len(v) : ElemSize(v[i]) = USize(1)})]

\* number of leading elements of v that hold exactly the first `size` bytes
\* (all of v when v is not longer than size)
ElemsBelow(v, size) ==
    IF USizeLe(VecLen(v), size) THEN Len(v)
    ELSE CHOOSE k \in 0..Len(v) : VecLen(SubSeq(v, 1, k)) = size

\* Vec::truncate
VecTruncate(v, size) == SubSeq(v, 1, ElemsBelow(v, size))

\* v[offset..]
VecFrom(v, offset) == SubSeq(v, ElemsBelow(v, offset) + 1, Len(v))

\* v[offset..offset + Len(bytes)].copy_from_slice(bytes)
VecCopyAt(v, offset, bytes) ==
    LET k == ElemsBelow(v, offset)
    IN  [i \in 1..Len(v) |->
            IF i > k /\ i <= k + Len(bytes) THEN bytes[i - k] ELSE v[i]]

\* u32::to_be_bytes for 0 <= n <= i32::MAX
U32ToBe(n) ==
    << n \div 16777216, (n \div 65536) % 256, (n \div 256) % 256, n % 256 >>

\* i32::to_be_bytes (two's complement)
I32ToBe(n) ==
    IF n >= 0 THEN U32ToBe(n)
    ELSE LET m == n + I32_MAX + 1      \* the low 31 bits
             b == U32ToBe(m)
         IN  << b[1] + 128, b[2], b[3], b[4] >>

\* i32::from_be_bytes
I32FromBe(b) ==
    LET low == ((b[1] % 128) * 16777216) + (b[2] * 65536) + (b[3] * 256) + b[4]
    IN  IF b[1] >= 128 THEN (low - I32_MAX) - 1 ELSE low

(***************************************************************************)
(* Result<T, E>                                                            *)
(***************************************************************************)
Ok(v) == [ok |-> TRUE, val |-> v, err |-> ""]

Err(e) == [ok |-> FALSE, val |-> 0, err |-> e]

\* sqlx_core::Error::Encode(e): the error e, marked as an encode error
Encode(e) == "Encode(" \o e \o ")"

(***************************************************************************)
(* PostgreSQL: bound values.  A value is what its Encode impl does to the   *)
(* buffer it is handed: a size hint, the calls it makes on the buffer in    *)
(* order, and what it returns (IsNull::No, IsNull::Yes or an error).        *)
(***************************************************************************)
Put(b) == [op |-> "put", byte |-> b, name |-> ""]

PutBlock == [op |-> "put", byte |-> Block, name |-> ""]

DoPatch(cb) == [op |-> "patch", byte |-> 0, name |-> cb]

DoTypeHole(n) == [op |-> "patch_type_by_name", byte |-> 0, name |-> n]

DoArrayHole(n) == [op |-> "patch_array_type", byte |-> 0, name |-> n]

PgValues ==
    << [name |-> "int2", size_hint |-> USize(2), ops |-> <<Put(1), Put(2)>>,
        ret |-> "No", type_info |-> "INT2", produces |-> ""],
       [name |-> "null", size_hint |-> USize(0), ops |-> <<>>,
        ret |-> "Yes", type_info |-> "TEXT", produces |-> ""],
       [name |-> "empty", size_hint |-> USize(0), ops |-> <<>>,
        ret |-> "No", type_info |-> "TEXT", produces |-> ""],
       [name |-> "record", size_hint |-> USize(0),
        ops |-> <<DoPatch("oid_byte"), Put(0), DoTypeHole("mood"), Put(9)>>,
        ret |-> "No", type_info |-> "RECORD", produces |-> "MOOD_PAIR"],
       [name |-> "array", size_hint |-> USize(0),
        ops |-> <<DoArrayHole("mood"), Put(3)>>,
        ret |-> "No", type_info |-> "MOOD[]", produces |-> ""],
       [name |-> "failing", size_hint |-> USize(1),
        ops |-> <<Put(5), DoPatch("oid_byte"), DoTypeHole("mood"), DoArrayHole("mood")>>,
        ret |-> "Err", type_info |-> "JSON", produces |-> ""],
       [name |-> "big_hint", size_hint |-> USizeHuge, ops |-> <<Put(1)>>,
        ret |-> "No", type_info |-> "BYTEA", produces |-> ""],
       [name |-> "big_body", size_hint |-> USize(0), ops |-> <<Put(1), PutBlock>>,
        ret |-> "No", type_info |-> "BYTEA", produces |-> ""] >>

PgValueIds == 1..Len(PgValues)

\* parameter types the server reports after prepare
ParamTypes == {"INT2", "TEXT"}

\* the type identifiers the server's catalog holds
TypeOid(kind) == IF kind.tag = "Type" THEN 16385 ELSE 16390

\* a patch callback: the bytes it stores at the start of its slice
CallbackBytes(callback, ty) == << IF ty = "INT2" THEN 21 ELSE 25 >>

(***************************************************************************)
(* PgArgumentBuffer                                                        *)
(***************************************************************************)
EmptyPgArgumentBuffer ==
    [buffer |-> <<>>, count |-> 0, patches |-> <<>>, type_holes |-> <<>>]

EmptyPgArgumentsInner == [types |-> <<>>, buffer |-> EmptyPgArgumentBuffer]

\* a check that casts the size to i32 instead of converting it
value_size_int4_checked_cast(size) == Ok(size.lo)

value_size_int4_checked(size) ==
    IF size.hi = 0 /\ size.lo <= I32_MAX
    THEN Ok(size.lo)
    ELSE Err("value size would overflow in the binary protocol encoding")

\* a registration keyed to the count after the value being encoded
patch_counts_value(buf, callback) ==
    LET offset == VecLen(buf.buffer)
        arg_index == buf.count + 1
    IN  [buf EXCEPT !.patches = Append(@,
            [buf_offset |-> offset, arg_index |-> arg_index, callback |-> callback])]

patch(buf, callback) ==
    LET offset == VecLen(buf.buffer)
        arg_index == buf.count
    IN  [buf EXCEPT !.patches = Append(@,
            [buf_offset |-> offset, arg_index |-> arg_index, callback |-> callback])]

\* a reservation that records where the slot ends
patch_type_by_name_after(buf, type_name) ==
    LET offset == VecLen(buf.buffer)
    IN  [buf EXCEPT !.buffer = @ \o U32ToBe(0),
                    !.type_holes = Append(@,
                        [offset |-> USizeAdd(offset, USize(4)),
                         kind |-> [tag |-> "Type", name |-> type_name]])]

patch_type_by_name(buf, type_name) ==
    LET offset == VecLen(buf.buffer)
    IN  [buf EXCEPT !.buffer = @ \o U32ToBe(0),
                    !.type_holes = Append(@,
                        [offset |-> offset, kind |-> [tag |-> "Type", name |-> type_name]])]

patch_array_type(buf, array) ==
    LET offset == VecLen(buf.buffer)
    IN  [buf EXCEPT !.buffer = @ \o U32ToBe(0),
                    !.type_holes = Append(@,
                        [offset |-> offset, kind |-> [tag |-> "Array", name |-> array]])]

\* one call a value's Encode impl makes on the buffer
ValueOp(buf, o) ==
    CASE o.op = "put" -> [buf EXCEPT !.buffer = Append(@, o.byte)]
      [] o.op = "patch" -> patch(buf, o.name)
      [] o.op = "patch_type_by_name" -> patch_type_by_name(buf, o.name)
      [] o.op = "patch_array_type" -> patch_array_type(buf, o.name)

RECURSIVE ValueOps(_, _)
ValueOps(buf, ops) ==
    IF ops = <<>> THEN buf
    ELSE ValueOps(ValueOp(buf, Head(ops)), Tail(ops))

\* Encode::encode / Encode::encode_by_ref of a bound value
encode_by_ref(buf, value) ==
    [buf |-> ValueOps(buf, value.ops),
     res |-> IF value.ret = "Err" THEN Err("encode error") ELSE Ok(value.ret)]

snapshot(buf) ==
    [buffer_length |-> VecLen(buf.buffer),
     count |-> buf.count,
     patches_length |-> Len(buf.patches),
     type_holes_length |-> Len(buf.type_holes)]

\* a rollback that forgets the type holes
reset_to_snapshot_keeps_holes(buf, snap) ==
    [buffer |-> VecTruncate(buf.buffer, snap.buffer_length),
     count |-> snap.count,
     patches |-> SubSeq(buf.patches, 1, snap.patches_length),
     type_holes |-> buf.type_holes]

\* a rollback that clears the patches and holes instead of truncating them
reset_to_snapshot_clears(buf, snap) ==
    [buffer |-> VecTruncate(buf.buffer, snap.buffer_length),
     count |-> snap.count,
     patches |-> <<>>,
     type_holes |-> <<>>]

\* a rollback that forgets the patches
reset_to_snapshot_keeps_patches(buf, snap) ==
    [buffer |-> VecTruncate(buf.buffer, snap.buffer_length),
     count |-> snap.count,
     patches |-> buf.patches,
     type_holes |-> SubSeq(buf.type_holes, 1, snap.type_holes_length)]

reset_to_snapshot(buf, snap) ==
    [buffer |-> VecTruncate(buf.buffer, snap.buffer_length),
     count |-> snap.count,
     patches |-> SubSeq(buf.patches, 1, snap.patches_length),
     type_holes |-> SubSeq(buf.type_holes, 1, snap.type_holes_length)]

\* PgArgumentBuffer::encode.  The debug_assert_eq! of the NULL branch holds for
\* every value here: none writes data and then reports IsNull::Yes.
encode(buf, value) ==
    LET hint == value_size_int4_checked(value.size_hint)
        offset == VecLen(buf.buffer)
        e == encode_by_ref([buf EXCEPT !.buffer = @ \o <<0, 0, 0, 0>>], value)
        size == USizeSub(USizeSub(VecLen(e.buf.buffer), offset), USize(4))
        len == IF e.res.val = "No" THEN value_size_int4_checked(size) ELSE Ok(-1)
    IN  IF ~hint.ok THEN [buf |-> buf, res |-> Err(hint.err)]
        ELSE IF ~e.res.ok THEN [buf |-> e.buf, res |-> Err(e.res.err)]
        ELSE IF ~len.ok THEN [buf |-> e.buf, res |-> Err(len.err)]
        ELSE [buf |-> [e.buf EXCEPT !.buffer = VecCopyAt(@, offset, I32ToBe(len.val))],
              res |-> Ok(0)]

\* a length prefix that counts its own four bytes
encode_ref_counts_prefix(buf, value) ==
    LET hint == value_size_int4_checked(value.size_hint)
        offset == VecLen(buf.buffer)
        e == encode_by_ref([buf EXCEPT !.buffer = @ \o <<0, 0, 0, 0>>], value)
        size == USizeSub(VecLen(e.buf.buffer), offset)
        len == IF e.res.val = "No" THEN value_size_int4_checked(size) ELSE Ok(-1)
    IN  IF ~hint.ok THEN [buf |-> buf, res |-> Err(hint.err)]
        ELSE IF ~e.res.ok THEN [buf |-> e.buf, res |-> Err(e.res.err)]
        ELSE IF ~len.ok THEN [buf |-> e.buf, res |-> Err(len.err)]
        ELSE [buf |-> [e.buf EXCEPT !.buffer = VecCopyAt(@, offset, I32ToBe(len.val))],
              res |-> Ok(0)]

\* PgArgumentBuffer::encode_ref
encode_ref(buf, value) ==
    LET hint == value_size_int4_checked(value.size_hint)
        offset == VecLen(buf.buffer)
        e == encode_by_ref([buf EXCEPT !.buffer = @ \o <<0, 0, 0, 0>>], value)
        size == USizeSub(USizeSub(VecLen(e.buf.buffer), offset), USize(4))
        len == IF e.res.val = "No" THEN value_size_int4_checked(size) ELSE Ok(-1)
    IN  IF ~hint.ok THEN [buf |-> buf, res |-> Err(hint.err)]
        ELSE IF ~e.res.ok THEN [buf |-> e.buf, res |-> Err(e.res.err)]
        ELSE IF ~len.ok THEN [buf |-> e.buf, res |-> Err(len.err)]
        ELSE [buf |-> [e.buf EXCEPT !.buffer = VecCopyAt(@, offset, I32ToBe(len.val))],
              res |-> Ok(0)]

(***************************************************************************)
(* PgArgumentsInner                                                        *)
(***************************************************************************)
add_ref(inner, value) ==
    LET type_info == IF value.produces # "" THEN value.produces ELSE value.type_info
        buffer_snapshot == snapshot(inner.buffer)
        e == encode_ref(inner.buffer, value)
    IN  IF ~e.res.ok
        THEN [args |-> [inner EXCEPT !.buffer = reset_to_snapshot(e.buf, buffer_snapshot)],
              res |-> e.res]
        ELSE [args |-> [types |-> Append(inner.types, type_info),
                        buffer |-> [e.buf EXCEPT !.count = @ + 1]],
              res |-> Ok(0)]

\* an add that records the declared type whatever the value produces
add_declared_type(inner, value) ==
    LET type_info == value.type_info
        buffer_snapshot == snapshot(inner.buffer)
        e == encode(inner.buffer, value)
    IN  IF ~e.res.ok
        THEN [args |-> [inner EXCEPT !.buffer = reset_to_snapshot(e.buf, buffer_snapshot)],
              res |-> e.res]
        ELSE [args |-> [types |-> Append(inner.types, type_info),
                        buffer |-> [e.buf EXCEPT !.count = @ + 1]],
              res |-> Ok(0)]

add(inner, value) ==
    LET type_info == IF value.produces # "" THEN value.produces ELSE value.type_info
        buffer_snapshot == snapshot(inner.buffer)
        e == encode(inner.buffer, value)
    IN  IF ~e.res.ok
        THEN [args |-> [inner EXCEPT !.buffer = reset_to_snapshot(e.buf, buffer_snapshot)],
              res |-> e.res]
        ELSE [args |-> [types |-> Append(inner.types, type_info),
                        buffer |-> [e.buf EXCEPT !.count = @ + 1]],
              res |-> Ok(0)]

\* PgArgumentsInner::len and <PgArgumentsInner as PositionalArguments>::len:
\* self.buffer.len() is Vec<u8>::len through Deref, the bytes of the buffer
pg_len(inner) == VecLen(inner.buffer.buffer)

\* a patch loop that hands every callback the first parameter's type
RECURSIVE run_patches_first_type(_, _, _)
run_patches_first_type(buffer, patches, parameters) ==
    IF patches = <<>> THEN buffer
    ELSE LET p == Head(patches)
             ty == parameters[1]
         IN  run_patches_first_type(
                 VecCopyAt(buffer, p.buf_offset, CallbackBytes(p.callback, ty)),
                 Tail(patches), parameters)

\* the patch loop of apply_patches
RECURSIVE run_patches(_, _, _)
run_patches(buffer, patches, parameters) ==
    IF patches = <<>> THEN buffer
    ELSE LET p == Head(patches)
             ty == parameters[p.arg_index + 1]
         IN  run_patches(VecCopyAt(buffer, p.buf_offset, CallbackBytes(p.callback, ty)),
                         Tail(patches), parameters)

\* a hole that is looked up but never written
fill_hole_nowhere(buffer, offset, oid) == buffer

\* buffer[*offset..(*offset + 4)].copy_from_slice(&oid.0.to_be_bytes())
fill_hole(buffer, offset, oid) == VecCopyAt(buffer, offset, U32ToBe(oid))

(***************************************************************************)
(* MySQL: NullBitMap                                                       *)
(***************************************************************************)
U8_BITS == 8

EmptyNullBitMap == [bytes |-> <<>>, length |-> 0]

RECURSIVE Pow2(_)
Pow2(k) == IF k = 0 THEN 1 ELSE 2 * Pow2(k - 1)

\* bit k (0 = least significant) of byte b
Bit(b, k) == (b \div Pow2(k)) % 2

\* a | b on u8
RECURSIVE BitOr(_, _, _)
BitOr(a, b, k) ==
    IF k = U8_BITS THEN 0
    ELSE (IF Bit(a, k) = 1 \/ Bit(b, k) = 1 THEN Pow2(k) ELSE 0) + BitOr(a, b, k + 1)

\* (x << n) on u8
Shl8(x, n) == (x * Pow2(n)) % Pow2(U8_BITS)

\* u8::from(is_null.is_null())
IsNullBit(is_null) == IF is_null = "Yes" THEN 1 ELSE 0

\* a bitmap filled from the most significant bit down
push_msb_first(bm, is_null) ==
    LET byte_index == bm.length \div U8_BITS
        bit_offset == bm.length % U8_BITS
        bytes == IF bit_offset = 0 THEN Append(bm.bytes, 0) ELSE bm.bytes
    IN  [bytes |-> [bytes EXCEPT ![byte_index + 1] =
                        BitOr(@, Shl8(IsNullBit(is_null), (U8_BITS - 1) - bit_offset), 0)],
         length |-> bm.length + 1]

\* NullBitMap::push
push(bm, is_null) ==
    LET byte_index == bm.length \div U8_BITS
        bit_offset == bm.length % U8_BITS
        bytes == IF bit_offset = 0 THEN Append(bm.bytes, 0) ELSE bm.bytes
    IN  [bytes |-> [bytes EXCEPT ![byte_index + 1] =
                        BitOr(@, Shl8(IsNullBit(is_null), bit_offset), 0)],
         length |-> bm.length + 1]

(***************************************************************************)
(* MySQL: bound values and MySqlArgumentsPositional                         *)
(***************************************************************************)
MySqlValues ==
    << [name |-> "long", bytes |-> <<7>>, ret |-> "No",
        type_info |-> "LONG", produces |-> ""],
       [name |-> "null", bytes |-> <<>>, ret |-> "Yes",
        type_info |-> "VAR_STRING", produces |-> ""],
       [name |-> "text", bytes |-> <<1, 97>>, ret |-> "No",
        type_info |-> "VAR_STRING", produces |-> "BLOB"],
       [name |-> "failing", bytes |-> <<2, 98>>, ret |-> "Err",
        type_info |-> "JSON", produces |-> ""],
       [name |-> "failing_early", bytes |-> <<>>, ret |-> "Err",
        type_info |-> "JSON", produces |-> ""] >>

MySqlValueIds == 1..Len(MySqlValues)

EmptyMySqlArgumentsPositional ==
    [values |-> <<>>, types |-> <<>>, null_bitmap |-> EmptyNullBitMap]

\* Encode::encode of a bound value into the values buffer
mysql_encode(values, value) ==
    [values |-> values \o value.bytes,
     res |-> IF value.ret = "Err" THEN Err("encode error") ELSE Ok(value.ret)]

\* Vec::truncate on a buffer of single bytes
Truncate(v, len) == IF len < Len(v) THEN SubSeq(v, 1, len) ELSE v

\* an add that leaves the half-encoded value behind
mysql_add_no_truncate(a, value) ==
    LET ty == IF value.produces # "" THEN value.produces ELSE value.type_info
        e == mysql_encode(a.values, value)
    IN  IF ~e.res.ok
        THEN [args |-> [a EXCEPT !.values = e.values], res |-> e.res]
        ELSE [args |-> [values |-> e.values,
                        types |-> Append(a.types, ty),
                        null_bitmap |-> push(a.null_bitmap, e.res.val)],
              res |-> Ok(0)]

\* an add that flags the value in the bitmap before it knows the encode worked
mysql_add_flags_failure(a, value) ==
    LET ty == IF value.produces # "" THEN value.produces ELSE value.type_info
        value_length_before_encoding == Len(a.values)
        e == mysql_encode(a.values, value)
    IN  IF ~e.res.ok
        THEN [args |-> [a EXCEPT !.values = Truncate(e.values, value_length_before_encoding),
                                 !.null_bitmap = push(@, "No")],
              res |-> e.res]
        ELSE [args |-> [values |-> e.values,
                        types |-> Append(a.types, ty),
                        null_bitmap |-> push(a.null_bitmap, e.res.val)],
              res |-> Ok(0)]

\* MySqlArgumentsPositional::add
mysql_add(a, value) ==
    LET ty == IF value.produces # "" THEN value.produces ELSE value.type_info
        value_length_before_encoding == Len(a.values)
        e == mysql_encode(a.values, value)
    IN  IF ~e.res.ok
        THEN [args |-> [a EXCEPT !.values = Truncate(e.values, value_length_before_encoding)],
              res |-> e.res]
        ELSE [args |-> [values |-> e.values,
                        types |-> Append(a.types, ty),
                        null_bitmap |-> push(a.null_bitmap, e.res.val)],
              res |-> Ok(0)]

\* <MySqlArgumentsPositional as PositionalArguments>::len
mysql_len(a) == Len(a.types)

(***************************************************************************)
(* The argument bag (MySqlArguments / PgArguments) and its type-erased      *)
(* values.  A bound value encodes as one MySQL value and as one PostgreSQL  *)
(* value; a sequence also reports a length and has elements.                *)
(***************************************************************************)
BoundValues ==
    << [name |-> "one", is_vector |-> FALSE, elems |-> <<>>, pg |-> 1, my |-> 1],
       [name |-> "nul", is_vector |-> FALSE, elems |-> <<>>, pg |-> 2, my |-> 2],
       [name |-> "bad", is_vector |-> FALSE, elems |-> <<>>, pg |-> 6, my |-> 4],
       [name |-> "ids", is_vector |-> TRUE, elems |-> <<1, 2, 1>>, pg |-> 5, my |-> 3],
       [name |-> "bad_ids", is_vector |-> TRUE, elems |-> <<1, 3>>, pg |-> 6, my |-> 4] >>

\* the values a caller binds: a scalar, a sequence, a sequence that fails to encode
BagValues == {1, 4, 5}

Names == {"a"}

\* the names the add_named calls of a bag's history use
BagNames == {"a", "b"}

EmptyArguments == [positional |-> <<>>, named |-> [n \in {} |-> 0]]

\* Arguments::add
arguments_add(bag, value) == [bag EXCEPT !.positional = Append(@, value)]

\* an insert that keeps the value a name already has
arguments_add_named_keep(bag, name, value) ==
    [bag EXCEPT !.named =
        [n \in (DOMAIN bag.named) \cup {name} |->
            IF n \in DOMAIN bag.named THEN bag.named[n] ELSE value]]

\* Arguments::add_named (BTreeMap::insert)
arguments_add_named(bag, name, value) ==
    [bag EXCEPT !.named =
        [n \in (DOMAIN bag.named) \cup {name} |-> IF n = name THEN value ELSE bag.named[n]]]

\* a count that takes the named values in
arguments_len_all(bag) == Len(bag.positional) + Cardinality(DOMAIN bag.named)

\* Arguments::len
arguments_len(bag) == Len(bag.positional)

\* Display of a usize: its decimal digits
Digit == <<"0", "1", "2", "3", "4", "5", "6", "7", "8", "9">>

RECURSIVE Decimal(_)
Decimal(n) == IF n < 10 THEN Digit[n + 1] ELSE Decimal(n \div 10) \o Digit[(n % 10) + 1]

\* a placeholder numbered by every value of the bag, named ones included
pg_format_placeholder_all(bag, writer) == writer \o "$" \o Decimal(arguments_len_all(bag))

\* <PgArguments as Arguments>::format_placeholder
pg_format_placeholder(bag, writer) == writer \o "$" \o Decimal(Len(bag.positional))

\* ArgumentIndex
Positioned(i) == [tag |-> "Positioned", pos |-> i, name |-> ""]

Named(n) == [tag |-> "Named", pos |-> 0, name |-> n]

\* Option
None == [some |-> FALSE, val |-> 0]

Some(v) == [some |-> TRUE, val |-> v]

\* ArgumentKind
Scalar == [tag |-> "Scalar", len |-> 0]

Vector(len) == [tag |-> "Vector", len |-> len]

\* Encode::vector_len of a bound value
vector_len(value) ==
    IF BoundValues[value].is_vector THEN Some(Len(BoundValues[value].elems)) ELSE None

\* a positional lookup that is one off
mysql_get_one_off(bag, index) ==
    IF index.tag = "Positioned"
    THEN IF index.pos + 1 < Len(bag.positional)
         THEN Some(bag.positional[index.pos + 2]) ELSE None
    ELSE IF index.name \in DOMAIN bag.named
         THEN Some(bag.named[index.name]) ELSE None

\* MySqlArguments::get
mysql_get(bag, index) ==
    IF index.tag = "Positioned"
    THEN IF index.pos < Len(bag.positional)
         THEN Some(bag.positional[index.pos + 1]) ELSE None
    ELSE IF index.name \in DOMAIN bag.named
         THEN Some(bag.named[index.name]) ELSE None

\* PgArguments::get
pg_get(bag, index) ==
    IF index.tag = "Positioned"
    THEN IF index.pos < Len(bag.positional)
         THEN Some(bag.positional[index.pos + 1]) ELSE None
    ELSE IF index.name \in DOMAIN bag.named
         THEN Some(bag.named[index.name]) ELSE None

\* a resolution that reports one element too few
mysql_get_kind_short(bag, index, place, has_expansion) ==
    LET arg == mysql_get(bag, index)
        len == vector_len(arg.val)
    IN  IF ~arg.some
        THEN [res |-> Err("unknown argument"), has_expansion |-> has_expansion]
        ELSE IF place.kleene
        THEN IF ~len.some
             THEN [res |-> Err("expected vector for argument"),
                   has_expansion |-> has_expansion]
             ELSE [res |-> Ok(Vector(IF len.val > 0 THEN len.val - 1 ELSE 0)),
                   has_expansion |-> TRUE]
        ELSE [res |-> Ok(Scalar), has_expansion |-> has_expansion]

\* a resolution that takes an absent argument for an empty sequence
mysql_get_kind_lenient(bag, index, place, has_expansion) ==
    LET arg == mysql_get(bag, index)
        len == vector_len(arg.val)
    IN  IF ~arg.some
        THEN [res |-> Ok(Vector(0)), has_expansion |-> has_expansion]
        ELSE IF place.kleene
        THEN IF ~len.some
             THEN [res |-> Err("expected vector for argument"),
                   has_expansion |-> has_expansion]
             ELSE [res |-> Ok(Vector(len.val)), has_expansion |-> TRUE]
        ELSE [res |-> Ok(Scalar), has_expansion |-> has_expansion]

\* a resolution that looks at the expansion marker before the lookup
mysql_get_kind_marker_first(bag, index, place, has_expansion) ==
    LET arg == mysql_get(bag, index)
    IN  IF place.kleene /\ (~arg.some \/ ~vector_len(arg.val).some)
        THEN [res |-> Err("expected vector for argument"),
              has_expansion |-> has_expansion]
        ELSE IF ~arg.some
        THEN [res |-> Err("unknown argument"), has_expansion |-> has_expansion]
        ELSE IF place.kleene
        THEN [res |-> Ok(Vector(vector_len(arg.val).val)), has_expansion |-> TRUE]
        ELSE [res |-> Ok(Scalar), has_expansion |-> has_expansion]

\* MySqlArguments::get_kind
mysql_get_kind(bag, index, place, has_expansion) ==
    LET arg == mysql_get(bag, index)
        len == vector_len(arg.val)
    IN  IF ~arg.some
        THEN [res |-> Err("unknown argument"), has_expansion |-> has_expansion]
        ELSE IF place.kleene
        THEN IF ~len.some
             THEN [res |-> Err("expected vector for argument"),
                   has_expansion |-> has_expansion]
             ELSE [res |-> Ok(Vector(len.val)), has_expansion |-> TRUE]
        ELSE [res |-> Ok(Scalar), has_expansion |-> has_expansion]

\* a resolution that raises the flag at every expansion marker
pg_get_kind_flags_marker(bag, index, place, has_expansion) ==
    LET arg == pg_get(bag, index)
        len == vector_len(arg.val)
    IN  IF ~arg.some
        THEN [res |-> Err("unknown argument"), has_expansion |-> has_expansion]
        ELSE IF place.kleene
        THEN IF ~len.some
             THEN [res |-> Err("expected vector for argument"),
                   has_expansion |-> TRUE]
             ELSE [res |-> Ok(Vector(len.val)), has_expansion |-> TRUE]
        ELSE [res |-> Ok(Scalar), has_expansion |-> has_expansion]

\* PgArguments::get_kind
pg_get_kind(bag, index, place, has_expansion) ==
    LET arg == pg_get(bag, index)
        len == vector_len(arg.val)
    IN  IF ~arg.some
        THEN [res |-> Err("unknown argument"), has_expansion |-> has_expansion]
        ELSE IF place.kleene
        THEN IF ~len.some
             THEN [res |-> Err("expected vector for argument"),
                   has_expansion |-> has_expansion]
             ELSE [res |-> Ok(Vector(len.val)), has_expansion |-> TRUE]
        ELSE [res |-> Ok(Scalar), has_expansion |-> has_expansion]

(***************************************************************************)
(* Placeholder expansion (sqlx_core::placeholders).  A parsed query is its  *)
(* placeholder occurrences in textual order; literal span i is the text     *)
(* before occurrence i + 1 and the last span is the text after the last one.*)
(***************************************************************************)
Occurrence(index, kleene) == [index |-> index, kleene |-> kleene]

Indexes == {Positioned(0), Named("a")}

Occurrences == {Occurrence(i, k) : i \in Indexes, k \in BOOLEAN}

Queries == UNION {[1..n -> Occurrences] : n \in 0..MaxOccurrences}

Backends == {"MySql", "Postgres"}

\* Database::PLACEHOLDER_CHAR
PLACEHOLDER_CHAR(backend) == IF backend = "Postgres" THEN "$" ELSE "?"

\* Database::PARAM_INDEXING
PARAM_INDEXING(backend) == IF backend = "Postgres" THEN "OneIndexed" ELSE "Implicit"

\* tokens of SQL text
Lit(i) == [t |-> "lit", ch |-> "", n |-> i, kleene |-> FALSE, index |-> Positioned(0)]

Sep == [t |-> "sep", ch |-> ", ", n |-> 0, kleene |-> FALSE, index |-> Positioned(0)]

\* a placeholder as the caller wrote it
Written(o) == [t |-> "placeholder", ch |-> "", n |-> 0, kleene |-> o.kleene, index |-> o.index]

\* a backend-native positional placeholder: `?`, or `$n` at position n
Native(backend, position) ==
    [t |-> "native", ch |-> PLACEHOLDER_CHAR(backend),
     n |-> IF PARAM_INDEXING(backend) = "OneIndexed" THEN position ELSE 0,
     kleene |-> FALSE, index |-> Positioned(0)]

\* query.as_str()
RECURSIVE SqlText(_, _)
SqlText(query, i) ==
    IF i > Len(query) THEN <<Lit(Len(query))>>
    ELSE <<Lit(i - 1), Written(query[i])>> \o SqlText(query, i + 1)

\* the positional buffer of a backend
DefaultPositional(backend) ==
    IF backend = "MySql" THEN EmptyMySqlArgumentsPositional ELSE EmptyPgArgumentsInner

\* PositionalArguments::add of a bound value
PositionalAdd(backend, a, value) ==
    IF backend = "MySql"
    THEN mysql_add(a, MySqlValues[BoundValues[value].my])
    ELSE add(a, PgValues[BoundValues[value].pg])

\* number of values in a positional buffer
PositionalCount(backend, a) ==
    IF backend = "MySql" THEN Len(a.types) ELSE a.buffer.count

GetKind(backend, bag, index, place, has_expansion) ==
    IF backend = "MySql"
    THEN mysql_get_kind(bag, index, place, has_expansion)
    ELSE pg_get_kind(bag, index, place, has_expansion)

Get(backend, bag, index) ==
    IF backend = "MySql" THEN mysql_get(bag, index) ELSE pg_get(bag, index)

\* step 2: the kind of every occurrence, in textual order
RECURSIVE ResolveKinds(_, _, _, _, _, _)
RECURSIVE ResolveNext(_, _, _, _, _, _)
ResolveKinds(backend, bag, query, i, kinds, has_expansion) ==
    IF i > Len(query) THEN [res |-> Ok(0), kinds |-> kinds, has_expansion |-> has_expansion]
    ELSE ResolveNext(backend, bag, query, i, kinds,
                     GetKind(backend, bag, query[i].index, query[i], has_expansion))

\* the kind k of occurrence i is known, or its resolution failed
ResolveNext(backend, bag, query, i, kinds, k) ==
    IF ~k.res.ok
    THEN [res |-> Err(k.res.err), kinds |-> kinds, has_expansion |-> k.has_expansion]
    ELSE ResolveKinds(backend, bag, query, i + 1, Append(kinds, k.res.val), k.has_expansion)

\* the values of one occurrence: the value itself, or its first len elements
OccurrenceValues(value, kind) ==
    IF kind.tag = "Vector"
    THEN [j \in 1..kind.len |->
            IF j <= Len(BoundValues[value].elems) THEN BoundValues[value].elems[j] ELSE 3]
    ELSE <<value>>

\* one occurrence's values encoded, each at the next position, placeholders joined
RECURSIVE EncodeValues(_, _, _, _, _)
RECURSIVE EncodeNext(_, _, _, _, _)
EncodeValues(backend, values, j, sql, a) ==
    IF j > Len(values) THEN [res |-> Ok(0), sql |-> sql, args |-> a]
    ELSE EncodeNext(backend, values, j, sql, PositionalAdd(backend, a, values[j]))

\* value j was added to the positional buffer (r), or its encode failed
EncodeNext(backend, values, j, sql, r) ==
    IF ~r.res.ok
    THEN [res |-> Err(r.res.err), sql |-> sql, args |-> r.args]
    ELSE EncodeValues(backend, values, j + 1,
                      (IF j > 1 THEN sql \o <<Sep>> ELSE sql)
                          \o <<Native(backend, PositionalCount(backend, r.args))>>,
                      r.args)

\* step 3: rewrite and re-encode, occurrence by occurrence
RECURSIVE Rewrite(_, _, _, _, _, _, _)
RECURSIVE RewriteNext(_, _, _, _, _, _)
Rewrite(backend, bag, query, kinds, i, sql, a) ==
    IF i > Len(query) THEN [res |-> Ok(0), sql |-> sql, args |-> a]
    ELSE RewriteNext(backend, bag, query, kinds, i,
            EncodeValues(backend,
                OccurrenceValues(Get(backend, bag, query[i].index).val, kinds[i]),
                1, sql, a))

\* occurrence i was rewritten (r), or one of its values failed to encode
RewriteNext(backend, bag, query, kinds, i, r) ==
    IF ~r.res.ok THEN r
    ELSE Rewrite(backend, bag, query, kinds, i + 1, r.sql \o <<Lit(i)>>, r.args)

\* the rewrite runs once every kind is resolved
ExpandResolved(backend, bag, query, k) ==
    IF ~k.res.ok
    THEN [res |-> Err(k.res.err), sql |-> <<>>, args |-> DefaultPositional(backend)]
    ELSE Rewrite(backend, bag, query, k.kinds, 1, <<Lit(0)>>, DefaultPositional(backend))

\* ParsedQuery::expand
expand(backend, bag, query) ==
    ExpandResolved(backend, bag, query, ResolveKinds(backend, bag, query, 1, <<>>, FALSE))

\* what sql_and_args returns: Ok((sql, args)) or Err(error)
Returned(sql, a) == [ok |-> TRUE, err |-> "", sql |-> sql, args |-> a]

Failed(e) == [ok |-> FALSE, err |-> e, sql |-> <<>>, args |-> None]

\* `?` on the result of expand
Try(x) == IF ~x.res.ok THEN Failed(x.res.err) ELSE Returned(x.sql, Some(x.args))

\* the result of expand handed out whether it failed or not
HandOut(x) == Returned(x.sql, Some(x.args))

\* a rewrite that hands out what it had built when it failed
mysql_sql_and_args_partial(query, arguments, converts) ==
    IF ~arguments.some THEN Returned(SqlText(query, 1), None)
    ELSE IF ~converts THEN Failed(Encode("argument conversion"))
    ELSE HandOut(expand("MySql", arguments.val, query))

\* sql_and_args of the MySQL facade backend
mysql_sql_and_args(query, arguments, converts) ==
    IF ~arguments.some THEN Returned(SqlText(query, 1), None)
    ELSE IF ~converts THEN Failed(Encode("argument conversion"))
    ELSE Try(expand("MySql", arguments.val, query))

\* sql_and_args_parsing of the PostgreSQL facade backend
pg_sql_and_args_parsing(query, arguments, converts) ==
    IF ~arguments.some THEN Returned(SqlText(query, 1), None)
    ELSE IF ~converts THEN Failed(Encode("argument conversion"))
    ELSE Try(expand("Postgres", arguments.val, query))

\* PgArguments::try_into_only_positional: the positional values added one by
\* one to a fresh buffer; the named values are not looked at
RECURSIVE try_into_only_positional_from(_, _, _)
try_into_only_positional_from(bag, i, positional) ==
    IF i > Len(bag.positional) THEN [res |-> Ok(0), args |-> positional]
    ELSE LET r == add_ref(positional, PgValues[BoundValues[bag.positional[i]].pg])
         IN  IF ~r.res.ok THEN [res |-> Err(r.res.err), args |-> r.args]
             ELSE try_into_only_positional_from(bag, i + 1, r.args)

try_into_only_positional(bag) ==
    try_into_only_positional_from(bag, 1, EmptyPgArgumentsInner)

\* `.map_err(sqlx_core::Error::Encode)?` on the result of try_into_only_positional
TryPositional(query, x) ==
    IF ~x.res.ok THEN Failed(Encode(x.res.err))
    ELSE Returned(SqlText(query, 1), Some(x.args))

\* sql_and_args of the PostgreSQL facade backend
pg_sql_and_args(query, arguments, converts) ==
    IF ~arguments.some THEN Returned(SqlText(query, 1), None)
    ELSE IF ~converts THEN Failed(Encode("argument conversion"))
    ELSE TryPositional(query, try_into_only_positional(arguments.val))

(***************************************************************************)
(* fetch_many of the facade backends.  The stream is a generator: its body  *)
(* runs when the consumer polls it and stops at each yield; a `?` that      *)
(* fails yields the error and ends the stream.  f is the stream's state.    *)
(***************************************************************************)
\* an item of a stream: Ok(Either::Left(..)), Ok(Either::Right(..)) or Err(..)
Item(tag, val) == [tag |-> tag, val |-> val]

NotRun == [sql |-> <<>>, args |-> None]

NotFetched == [pc |-> "idle", backend |-> "", query |-> <<>>, arguments |-> None,
               converts |-> TRUE, ret |-> Failed(""), ran |-> FALSE, sent |-> NotRun,
               source |-> <<>>, pending |-> <<>>, out |-> <<>>]

\* map_result
map_result(backend, result) ==
    IF backend = "MySql"
    THEN "AnyQueryResult { rows_affected: " \o result \o ", last_insert_id: Some(_) }"
    ELSE "AnyQueryResult { rows_affected: " \o result \o ", last_insert_id: None }"

\* AnyRow::try_from(&row): AnyRow::map_from fails on a column it cannot reduce
row_try_from(row) ==
    IF row = "undecodable" THEN Err("ColumnDecode(" \o row \o ")")
    ELSE Ok("AnyRow(" \o row \o ")")

\* a start that hands the request to run whatever sql_and_args returned
fetch_start_runs_anyway(f, ret, run_ok) ==
    IF ~run_ok
    THEN [f EXCEPT !.pc = "done", !.ret = ret, !.ran = TRUE,
                   !.sent = [sql |-> ret.sql, args |-> ret.args],
                   !.out = <<Item("Err", "database error")>>]
    ELSE [f EXCEPT !.pc = "streaming", !.ret = ret, !.ran = TRUE,
                   !.sent = [sql |-> ret.sql, args |-> ret.args]]

\* the body of the stream up to the loop: sql_and_args(..)?, then
\* self.run(sql, arguments_inner, ..).await?
fetch_start(f, ret, run_ok) ==
    IF ~ret.ok
    THEN [f EXCEPT !.pc = "done", !.ret = ret, !.out = <<Item("Err", ret.err)>>]
    ELSE IF ~run_ok
    THEN [f EXCEPT !.pc = "done", !.ret = ret, !.ran = TRUE,
                   !.sent = [sql |-> ret.sql, args |-> ret.args],
                   !.out = <<Item("Err", "database error")>>]
    ELSE [f EXCEPT !.pc = "streaming", !.ret = ret, !.ran = TRUE,
                   !.sent = [sql |-> ret.sql, args |-> ret.args]]

\* s.try_next().await? returned item v of the backend stream
fetch_pulled(f, v) ==
    IF v.tag = "Err"
    THEN [f EXCEPT !.pc = "done", !.source = Append(@, v), !.out = Append(@, v)]
    ELSE [f EXCEPT !.pc = "pulled", !.source = Append(@, v), !.pending = <<v>>]

\* a loop body that drops a row it cannot reduce and goes on
fetch_yield_skips_row(f, converted) ==
    IF ~converted.ok
    THEN [f EXCEPT !.pc = "streaming", !.pending = <<>>]
    ELSE [f EXCEPT !.pc = "streaming", !.pending = <<>>,
                   !.out = Append(@, Item("Right", converted.val))]

\* the loop body on a row: AnyRow::try_from(&row)?, then yield
fetch_yield_row(f, converted) ==
    IF ~converted.ok
    THEN [f EXCEPT !.pc = "done", !.pending = <<>>,
                   !.out = Append(@, Item("Err", converted.err))]
    ELSE [f EXCEPT !.pc = "streaming", !.pending = <<>>,
                   !.out = Append(@, Item("Right", converted.val))]

\* the loop body on the pulled item
fetch_yield(f) ==
    LET v == f.pending[1]
    IN  IF v.tag = "Left"
        THEN [f EXCEPT !.pc = "streaming", !.pending = <<>>,
                       !.out = Append(@, Item("Left", map_result(f.backend, v.val)))]
        ELSE fetch_yield_row(f, row_try_from(v.val))

(***************************************************************************)
(* The facade's reduced type model (AnyTypeInfoKind) and the conversions    *)
(* each backend registers into it.  A concrete type is its variant's name.  *)
(***************************************************************************)
\* ColumnType variants: the ones the conversion lists, and three it does not
MySqlColumnTypes ==
    {"Null", "Short", "Long", "LongLong", "Float", "Double", "Blob", "TinyBlob",
     "MediumBlob", "LongBlob", "String", "VarString", "VarChar",
     "Tiny", "NewDecimal", "Json"}

\* PgType variants: the ones the conversion lists, and three it does not
PgTypes ==
    {"Bool", "Void", "Int2", "Int4", "Int8", "Float4", "Float8", "Bytea", "Text",
     "Varchar", "DeclareWithName(citext)",
     "Numeric", "Int4Array", "DeclareWithName(hstore)"}

\* sqlx_core::Error::AnyDriverError(message); a message is its pieces in order
AnyDriverError(message) ==
    [variant |-> "AnyDriverError", message |-> message, index |-> "", source |-> <<>>]

\* sqlx_core::Error::ColumnDecode { index, source }
ColumnDecode(index, source) ==
    [variant |-> "ColumnDecode", message |-> <<>>, index |-> index, source |-> <<source>>]

AnyTypeInfo(kind) == [kind |-> kind]

\* TryFrom<&MySqlTypeInfo> for AnyTypeInfo
mysql_type_info_try_from(type_info) ==
    CASE type_info = "Null" -> Ok(AnyTypeInfo("Null"))
      [] type_info = "Short" -> Ok(AnyTypeInfo("SmallInt"))
      [] type_info = "Long" -> Ok(AnyTypeInfo("Integer"))
      [] type_info = "LongLong" -> Ok(AnyTypeInfo("BigInt"))
      [] type_info = "Float" -> Ok(AnyTypeInfo("Real"))
      [] type_info = "Double" -> Ok(AnyTypeInfo("Double"))
      [] type_info \in {"Blob", "TinyBlob", "MediumBlob", "LongBlob"} ->
             Ok(AnyTypeInfo("Blob"))
      [] type_info \in {"String", "VarString", "VarChar"} -> Ok(AnyTypeInfo("Text"))
      [] OTHER ->
             Err(AnyDriverError(<<"Any driver does not support MySql type ", type_info>>))

\* a conversion that takes every type it does not list for text
pg_type_info_try_from_coerce(pg_type) ==
    CASE pg_type = "Bool" -> Ok(AnyTypeInfo("Bool"))
      [] pg_type = "Void" -> Ok(AnyTypeInfo("Null"))
      [] pg_type = "Int2" -> Ok(AnyTypeInfo("SmallInt"))
      [] pg_type = "Int4" -> Ok(AnyTypeInfo("Integer"))
      [] pg_type = "Int8" -> Ok(AnyTypeInfo("BigInt"))
      [] pg_type = "Float4" -> Ok(AnyTypeInfo("Real"))
      [] pg_type = "Float8" -> Ok(AnyTypeInfo("Double"))
      [] pg_type = "Bytea" -> Ok(AnyTypeInfo("Blob"))
      [] OTHER -> Ok(AnyTypeInfo("Text"))

\* TryFrom<&PgTypeInfo> for AnyTypeInfo
pg_type_info_try_from(pg_type) ==
    CASE pg_type = "Bool" -> Ok(AnyTypeInfo("Bool"))
      [] pg_type = "Void" -> Ok(AnyTypeInfo("Null"))
      [] pg_type = "Int2" -> Ok(AnyTypeInfo("SmallInt"))
      [] pg_type = "Int4" -> Ok(AnyTypeInfo("Integer"))
      [] pg_type = "Int8" -> Ok(AnyTypeInfo("BigInt"))
      [] pg_type = "Float4" -> Ok(AnyTypeInfo("Real"))
      [] pg_type = "Float8" -> Ok(AnyTypeInfo("Double"))
      [] pg_type = "Bytea" -> Ok(AnyTypeInfo("Blob"))
      [] pg_type \in {"Text", "Varchar"} -> Ok(AnyTypeInfo("Text"))
      [] pg_type = "DeclareWithName(citext)" -> Ok(AnyTypeInfo("Text"))
      [] OTHER ->
             Err(AnyDriverError(
                 <<"Any driver does not support the Postgres type ", pg_type>>))

AnyColumn(ordinal, name, type_info) ==
    [ordinal |-> ordinal, name |-> name, type_info |-> type_info]

\* TryFrom<&MySqlColumn> for AnyColumn
mysql_column_try_from(column) ==
    LET type_info == mysql_type_info_try_from(column.type_info)
    IN  IF ~type_info.ok THEN Err(type_info.err)
        ELSE Ok(AnyColumn(column.ordinal, column.name, type_info.val))

\* TryFrom<&PgColumn> for AnyColumn
pg_column_try_from(col) ==
    LET type_info == pg_type_info_try_from(col.type_info)
    IN  IF ~type_info.ok THEN Err(ColumnDecode(col.name, type_info.err))
        ELSE Ok(AnyColumn(col.ordinal, col.name, type_info.val))

\* Either
Left(x) == [side |-> "Left", val |-> x]

Right(x) == [side |-> "Right", val |-> x]

\* collect::<Result<Vec<_>, _>>(): the first error, or every value in order
RECURSIVE Collect(_, _, _)
Collect(results, i, acc) ==
    IF i > Len(results) THEN Ok(acc)
    ELSE IF ~results[i].ok THEN Err(results[i].err)
    ELSE Collect(results, i + 1, Append(acc, results[i].val))

\* the conversion of parameter i (counted from 0) in describe
pg_parameter_try_from(i, type_info) ==
    LET r == pg_type_info_try_from(type_info)
    IN  IF ~r.ok
        THEN Err(AnyDriverError(<<"Any driver does not support type ", type_info,
                                  " of parameter ", ToString(i)>>))
        ELSE r

Describe(columns, parameters, nullable) ==
    [columns |-> columns, parameters |-> parameters, nullable |-> nullable]

\* the parameters of describe, once the columns are converted
pg_describe_parameters(describe, columns) ==
    IF ~describe.parameters.some
    THEN Ok(Describe(columns, None, describe.nullable))
    ELSE IF describe.parameters.val.side = "Right"
    THEN Ok(Describe(columns, Some(Right(describe.parameters.val.val)), describe.nullable))
    ELSE LET types == describe.parameters.val.val
             parameters == Collect([i \in DOMAIN types |->
                                       pg_parameter_try_from(i - 1, types[i])], 1, <<>>)
         IN  IF ~parameters.ok THEN Err(parameters.err)
             ELSE Ok(Describe(columns, Some(Left(parameters.val)), describe.nullable))

\* <PgConnection as AnyConnectionBackend>::describe, on what the driver's
\* describe returned
pg_describe(describe) ==
    LET columns == Collect([i \in DOMAIN describe.columns |->
                               pg_column_try_from(describe.columns[i])], 1, <<>>)
    IN  IF ~columns.ok THEN Err(columns.err)
        ELSE pg_describe_parameters(describe, columns.val)

(***************************************************************************)
(* Initial state: everything freshly constructed (Default::default()).      *)
(***************************************************************************)
NotSent == [sent |-> FALSE, buffer |-> <<>>]

InitPg ==
    /\ pg = EmptyPgArgumentsInner
    /\ pg_ret = [call |-> "none", value |-> 0, res |-> Ok(0)]
    /\ bind = [pc |-> "build", hole |-> 0, apply_ret |-> "none", parameters |-> <<>>]
    /\ conn = [lookups |-> <<>>, wire |-> NotSent]

InitMySql ==
    /\ my = EmptyMySqlArgumentsPositional
    /\ my_ret = [call |-> "none", value |-> 0, res |-> Ok(0)]

InitNullBitMap ==
    /\ bit_map = EmptyNullBitMap
    /\ pushed = <<>>

Idle == [pc |-> "idle", backend |-> "", query |-> <<>>, arguments |-> None,
         ret |-> Failed("")]

InitRequest ==
    /\ args = EmptyArguments
    /\ req = Idle

InitBag == calls = <<>>

InitGetKind == gk = [has_expansion |-> FALSE, log |-> <<>>]

NotDescribed == [pc |-> "idle", backend |-> "", type_info |-> "", columns |-> <<>>,
                 parameters |-> None, ret |-> Ok(0)]

InitDescribe == desc = NotDescribed

InitFetch == fm = NotFetched

Threads == 1..MaxThreads

\* a pool is known by a number that tells the thread that built it and
\* whether DATABASE_URL named the usual host (0) or another one (1)
PoolOf(t, h) == 2 * t + h

Host(pool) == pool % 2

NotCalled == [pc |-> "start", pool |-> 0, value |-> None, res |-> 0,
              ret |-> [ok |-> FALSE, existing |-> 0, rejected |-> 0],
              master_pool |-> 0]

InitTest ==
    /\ MASTER_POOL = [state |-> "incomplete", value |-> None, inits |-> 0]
    /\ test = [t \in Threads |-> NotCalled]

Init ==
    /\ InitPg /\ InitMySql /\ InitNullBitMap /\ InitRequest
    /\ InitBag /\ InitGetKind /\ InitDescribe /\ InitFetch /\ InitTest

PgVars == <<pg, pg_ret, bind, conn>>

MySqlVars == <<my, my_ret>>

NullBitMapVars == <<bit_map, pushed>>

RequestVars == <<args, req>>

FacadeVars == <<calls, gk, desc, fm>>

TestVars == <<MASTER_POOL, test>>

RestOfPg == <<my, my_ret, bit_map, pushed, args, req, FacadeVars, TestVars>>

(***************************************************************************)
(* Building the parameter buffer: PgArgumentsInner::add / add_ref           *)
(***************************************************************************)
PgAdd(v) ==
    /\ bind.pc = "build"
    /\ pg.buffer.count < MaxPgArgs
    /\ LET r == add(pg, PgValues[v])
       IN  /\ pg' = r.args
           /\ pg_ret' = [call |-> "add", value |-> v, res |-> r.res]
    /\ UNCHANGED <<bind, conn>>
    /\ UNCHANGED RestOfPg

PgAddRef(v) ==
    /\ bind.pc = "build"
    /\ pg.buffer.count < MaxPgArgs
    /\ LET r == add_ref(pg, PgValues[v])
       IN  /\ pg' = r.args
           /\ pg_ret' = [call |-> "add_ref", value |-> v, res |-> r.res]
    /\ UNCHANGED <<bind, conn>>
    /\ UNCHANGED RestOfPg

(***************************************************************************)
(* The bind: apply_patches(conn, parameters).await?, then the buffer is     *)
(* written to the connection.  apply_patches suspends at each lookup.       *)
(***************************************************************************)
ParameterLists(n) == [1..n -> ParamTypes]

\* conn.fetch_type_id_by_name(name) / conn.fetch_array_type_id(array), asked
Lookup(kind) == [kind |-> kind, answer |-> "pending"]

\* the connection answers the lookup it was asked last
Answered(c, answer) == [c EXCEPT !.lookups[Len(c.lookups)].answer = answer]

\* apply_patches up to its first await: the patch loop, then the first lookup
\* is asked (or Ok(()) when there is no type hole)
ApplyPatchesBegin(parameters) ==
    /\ bind.pc = "build"
    /\ pg' = [pg EXCEPT !.buffer.buffer =
                run_patches(@, pg.buffer.patches, parameters)]
    /\ IF pg.buffer.type_holes = <<>>
       THEN /\ bind' = [pc |-> "applied", hole |-> 0, apply_ret |-> "Ok",
                        parameters |-> parameters]
            /\ conn' = conn
       ELSE /\ bind' = [pc |-> "lookup", hole |-> 1, apply_ret |-> "none",
                        parameters |-> parameters]
            /\ conn' = [conn EXCEPT !.lookups =
                            Append(@, Lookup(pg.buffer.type_holes[1].kind))]
    /\ UNCHANGED pg_ret
    /\ UNCHANGED RestOfPg

\* where apply_patches goes after the lookup for hole b.hole answered Ok:
\* the next hole of the for loop, or Ok(()) after the last one
after_lookup_ok(b, holes) ==
    IF b.hole < Len(holes)
    THEN [b EXCEPT !.hole = @ + 1]
    ELSE [b EXCEPT !.pc = "applied", !.apply_ret = "Ok"]

\* a failed lookup that is skipped over
after_lookup_err_continues(b, holes) ==
    IF b.hole < Len(holes)
    THEN [b EXCEPT !.hole = @ + 1]
    ELSE [b EXCEPT !.pc = "applied", !.apply_ret = "Ok"]

\* where apply_patches goes after the lookup for hole b.hole answered Err: `?`
after_lookup_err(b, holes) ==
    [b EXCEPT !.pc = "failed", !.apply_ret = "Err"]

\* the lookup of the hole apply_patches has moved to, if it has, is asked
AskLookup(c, b) ==
    IF b.pc = "lookup"
    THEN [c EXCEPT !.lookups = Append(@, Lookup(pg.buffer.type_holes[b.hole].kind))]
    ELSE c

LookupOk ==
    /\ bind.pc = "lookup"
    /\ LET h == pg.buffer.type_holes[bind.hole]
           b == after_lookup_ok(bind, pg.buffer.type_holes)
       IN  /\ pg' = [pg EXCEPT !.buffer.buffer = fill_hole(@, h.offset, TypeOid(h.kind))]
           /\ bind' = b
           /\ conn' = AskLookup(Answered(conn, "Ok"), b)
    /\ UNCHANGED pg_ret
    /\ UNCHANGED RestOfPg

LookupErr ==
    /\ bind.pc = "lookup"
    /\ LET b == after_lookup_err(bind, pg.buffer.type_holes)
       IN  /\ bind' = b
           /\ conn' = AskLookup(Answered(conn, "Err"), b)
    /\ UNCHANGED <<pg, pg_ret>>
    /\ UNCHANGED RestOfPg

\* the caller of apply_patches writes the Bind message once it returned Ok
Transmit ==
    /\ bind.pc = "applied"
    /\ bind.apply_ret = "Ok"
    /\ conn' = [conn EXCEPT !.wire = [sent |-> TRUE, buffer |-> pg.buffer.buffer]]
    /\ bind' = [bind EXCEPT !.pc = "sent"]
    /\ UNCHANGED <<pg, pg_ret>>
    /\ UNCHANGED RestOfPg

Next ==
    \/ \E v \in PgValueIds : PgAdd(v)
    \/ \E v \in PgValueIds : PgAddRef(v)
    \/ \E parameters \in ParameterLists(pg.buffer.count) : ApplyPatchesBegin(parameters)
    \/ LookupOk
    \/ LookupErr
    \/ Transmit

Spec == Init /\ [][Next]_vars

(***************************************************************************)
(* The buffer on its own: encode / encode_ref called on a PgArgumentBuffer  *)
(* directly (as a value's encode does for the values it nests), with no     *)
(* rollback around them, and value_size_int4_checked on sizes at and around *)
(* the limit.                                                               *)
(***************************************************************************)
Sizes ==
    << USize(0), USize(1), USize(I32_MAX - 1), USize(I32_MAX), USizeHuge,
       [hi |-> 1, lo |-> 1], [hi |-> 1, lo |-> I32_MAX] >>

SizeCheck(i) ==
    /\ pg_ret' = [call |-> "value_size_int4_checked", value |-> i,
                  res |-> value_size_int4_checked(Sizes[i])]
    /\ UNCHANGED <<pg, bind, conn>>
    /\ UNCHANGED RestOfPg

BufferEncode(v) ==
    /\ Len(pg.buffer.buffer) < MaxEncoded
    /\ LET r == encode(pg.buffer, PgValues[v])
       IN  /\ pg' = [pg EXCEPT !.buffer = r.buf]
           /\ pg_ret' = [call |-> "encode", value |-> v, res |-> r.res]
    /\ UNCHANGED <<bind, conn>>
    /\ UNCHANGED RestOfPg

BufferEncodeRef(v) ==
    /\ Len(pg.buffer.buffer) < MaxEncoded
    /\ LET r == encode_ref(pg.buffer, PgValues[v])
       IN  /\ pg' = [pg EXCEPT !.buffer = r.buf]
           /\ pg_ret' = [call |-> "encode_ref", value |-> v, res |-> r.res]
    /\ UNCHANGED <<bind, conn>>
    /\ UNCHANGED RestOfPg

NextEncode ==
    \/ \E i \in 1..Len(Sizes) : SizeCheck(i)
    \/ \E v \in PgValueIds : BufferEncode(v)
    \/ \E v \in PgValueIds : BufferEncodeRef(v)

SpecEncode == Init /\ [][NextEncode]_vars

(***************************************************************************)
(* MySQL: building the positional wire state                                *)
(***************************************************************************)
MySqlAdd(v) ==
    /\ Len(my.types) < MaxMyArgs
    /\ LET r == mysql_add(my, MySqlValues[v])
       IN  /\ my' = r.args
           /\ my_ret' = [call |-> "add", value |-> v, res |-> r.res]
    /\ UNCHANGED <<PgVars, TestVars, NullBitMapVars, RequestVars, FacadeVars>>

NextMySql == \E v \in MySqlValueIds : MySqlAdd(v)

SpecMySql == Init /\ [][NextMySql]_vars

(***************************************************************************)
(* A caller that builds one wire buffer, the PostgreSQL one or the MySQL    *)
(* one: the two objects share nothing, so each is filled while the other    *)
(* is as constructed.                                                       *)
(***************************************************************************)
NextAdds ==
    \/ \E v \in PgValueIds : my_ret.call = "none" /\ PgAdd(v)
    \/ \E v \in PgValueIds : my_ret.call = "none" /\ PgAddRef(v)
    \/ \E v \in MySqlValueIds : pg_ret.call = "none" /\ MySqlAdd(v)

SpecAdds == Init /\ [][NextAdds]_vars

(***************************************************************************)
(* MySQL: pushing is-null flags onto a NullBitMap                           *)
(***************************************************************************)
Push(is_null) ==
    /\ Len(pushed) < MaxFlags
    /\ bit_map' = push(bit_map, is_null)
    /\ pushed' = Append(pushed, is_null)
    /\ UNCHANGED <<PgVars, TestVars, MySqlVars, RequestVars, FacadeVars>>

NextNullBitMap == \E is_null \in {"Yes", "No"} : Push(is_null)

SpecNullBitMap == Init /\ [][NextNullBitMap]_vars

(***************************************************************************)
(* A facade request: the caller fills an argument bag, then the backend     *)
(* turns the SQL and the bag into native SQL and a positional buffer.       *)
(***************************************************************************)
ArgumentsAdd(value) ==
    /\ req.pc = "idle"
    /\ Len(args.positional) < MaxPositional
    /\ args' = arguments_add(args, value)
    /\ UNCHANGED <<req, PgVars, TestVars, MySqlVars, NullBitMapVars, FacadeVars>>

ArgumentsAddNamed(name, value) ==
    /\ req.pc = "idle"
    /\ args' = arguments_add_named(args, name, value)
    /\ UNCHANGED <<req, PgVars, TestVars, MySqlVars, NullBitMapVars, FacadeVars>>

\* the request passes Some(args)
SqlAndArgs(backend, query, converts) ==
    /\ req.pc = "idle"
    /\ req' = [pc |-> "done", backend |-> backend, query |-> query,
               arguments |-> Some(args),
               ret |-> IF backend = "MySql"
                       THEN mysql_sql_and_args(query, Some(args), converts)
                       ELSE pg_sql_and_args_parsing(query, Some(args), converts)]
    /\ UNCHANGED <<args, PgVars, TestVars, MySqlVars, NullBitMapVars, FacadeVars>>

\* the request passes no arguments at all
SqlAndNoArgs(backend, query) ==
    /\ req.pc = "idle"
    /\ args = EmptyArguments
    /\ req' = [pc |-> "done", backend |-> backend, query |-> query,
               arguments |-> None,
               ret |-> IF backend = "MySql"
                       THEN mysql_sql_and_args(query, None, TRUE)
                       ELSE pg_sql_and_args_parsing(query, None, TRUE)]
    /\ UNCHANGED <<args, PgVars, TestVars, MySqlVars, NullBitMapVars, FacadeVars>>

NextRequest ==
    \/ \E value \in BagValues : ArgumentsAdd(value)
    \/ \E name \in Names, value \in BagValues : ArgumentsAddNamed(name, value)
    \/ \E backend \in Backends, query \in Queries, converts \in BOOLEAN :
         SqlAndArgs(backend, query, converts)
    \/ \E backend \in Backends, query \in Queries : SqlAndNoArgs(backend, query)

SpecRequest == Init /\ [][NextRequest]_vars

(***************************************************************************)
(* The argument bag on its own: any sequence of add and add_named calls.    *)
(***************************************************************************)
BagAdd(value) ==
    /\ Len(calls) < MaxCalls
    /\ args' = arguments_add(args, value)
    /\ calls' = Append(calls, [op |-> "add", name |-> "", value |-> value])
    /\ UNCHANGED <<req, gk, desc, fm, PgVars, TestVars, MySqlVars, NullBitMapVars>>

BagAddNamed(name, value) ==
    /\ Len(calls) < MaxCalls
    /\ args' = arguments_add_named(args, name, value)
    /\ calls' = Append(calls, [op |-> "add_named", name |-> name, value |-> value])
    /\ UNCHANGED <<req, gk, desc, fm, PgVars, TestVars, MySqlVars, NullBitMapVars>>

NextBag ==
    \/ \E value \in BagValues : BagAdd(value)
    \/ \E name \in BagNames, value \in BagValues : BagAddNamed(name, value)

SpecBag == Init /\ [][NextBag]_vars

(***************************************************************************)
(* A PostgreSQL bag whose caller also asks for the next placeholder, as a   *)
(* query builder does after each bind.  The call is logged with what it     *)
(* wrote in the name field.                                                 *)
(***************************************************************************)
FormatPlaceholder ==
    /\ Len(calls) < MaxCalls
    /\ calls' = Append(calls, [op |-> "format_placeholder",
                               name |-> pg_format_placeholder(args, ""),
                               value |-> 0])
    /\ UNCHANGED <<args, req, gk, desc, fm, PgVars, TestVars, MySqlVars, NullBitMapVars>>

NextPlaceholder ==
    \/ \E value \in BagValues : BagAdd(value)
    \/ \E name \in BagNames, value \in BagValues : BagAddNamed(name, value)
    \/ FormatPlaceholder

SpecPlaceholder == Init /\ [][NextPlaceholder]_vars

(***************************************************************************)
(* Resolving placeholders one at a time: a caller fills a bag and calls     *)
(* get_kind with one flag of its own, as sql_and_args does for every        *)
(* placeholder of a query.                                                  *)
(***************************************************************************)
KindIndexes == {Positioned(0), Positioned(1), Named("a")}

GetKindCall(backend, index, kleene) ==
    /\ Len(gk.log) < MaxKindCalls
    /\ LET r == GetKind(backend, args, index, [kleene |-> kleene], gk.has_expansion)
       IN  gk' = [has_expansion |-> r.has_expansion,
                  log |-> Append(gk.log, [backend |-> backend, index |-> index,
                                          kleene |-> kleene, res |-> r.res])]
    /\ UNCHANGED <<args, req, calls, desc, fm, PgVars, TestVars, MySqlVars, NullBitMapVars>>

NextGetKind ==
    \/ \E value \in BagValues : ArgumentsAdd(value)
    \/ \E name \in Names, value \in BagValues : ArgumentsAddNamed(name, value)
    \/ \E backend \in Backends, index \in KindIndexes, kleene \in BOOLEAN :
         GetKindCall(backend, index, kleene)

SpecGetKind == Init /\ [][NextGetKind]_vars

(***************************************************************************)
(* Reducing backend types to the facade's model: a type-info, a column, or  *)
(* what the PostgreSQL driver's describe returned.  Each conversion is one  *)
(* call on a fresh input.                                                   *)
(***************************************************************************)
ColumnNames == <<"id", "name", "data", "more">>

\* column i of a result set
Column(i, type_info) == [ordinal |-> i - 1, name |-> ColumnNames[i], type_info |-> type_info]

\* the types of the described statements
DescribeTypes == {"Int4", "DeclareWithName(citext)", "Numeric", "Int4Array"}

BackendTypes(backend) == IF backend = "MySql" THEN MySqlColumnTypes ELSE PgTypes

TypeLists(n) == UNION {[1..k -> DescribeTypes] : k \in 0..n}

ReduceTypeInfo(backend, type_info) ==
    /\ desc.pc = "idle"
    /\ desc' = [pc |-> "type_info", backend |-> backend, type_info |-> type_info,
                columns |-> <<>>, parameters |-> None,
                ret |-> IF backend = "MySql" THEN mysql_type_info_try_from(type_info)
                        ELSE pg_type_info_try_from(type_info)]
    /\ UNCHANGED <<args, req, calls, gk, fm, PgVars, TestVars, MySqlVars, NullBitMapVars>>

ReduceColumn(backend, i, type_info) ==
    /\ desc.pc = "idle"
    /\ desc' = [pc |-> "column", backend |-> backend, type_info |-> "",
                columns |-> <<Column(i, type_info)>>, parameters |-> None,
                ret |-> IF backend = "MySql"
                        THEN mysql_column_try_from(Column(i, type_info))
                        ELSE pg_column_try_from(Column(i, type_info))]
    /\ UNCHANGED <<args, req, calls, gk, fm, PgVars, TestVars, MySqlVars, NullBitMapVars>>

PgDescribe(types, parameters) ==
    LET columns == [i \in DOMAIN types |-> Column(i, types[i])]
        nullable == [i \in DOMAIN types |-> None]
    IN  /\ desc.pc = "idle"
        /\ desc' = [pc |-> "describe", backend |-> "Postgres", type_info |-> "",
                    columns |-> columns, parameters |-> parameters,
                    ret |-> pg_describe(Describe(columns, parameters, nullable))]
        /\ UNCHANGED <<args, req, calls, gk, fm, PgVars, TestVars, MySqlVars, NullBitMapVars>>

NextDescribe ==
    \/ \E backend \in Backends : \E type_info \in BackendTypes(backend) :
         ReduceTypeInfo(backend, type_info)
    \/ \E backend \in Backends, i \in 1..MaxColumns :
         \E type_info \in BackendTypes(backend) : ReduceColumn(backend, i, type_info)
    \/ \E types \in TypeLists(MaxColumns) : PgDescribe(types, None)
    \/ \E types \in TypeLists(MaxColumns), count \in 0..MaxParameters :
         PgDescribe(types, Some(Right(count)))
    \/ \E types \in TypeLists(MaxColumns), parameters \in TypeLists(MaxParameters) :
         PgDescribe(types, Some(Left(parameters)))

SpecDescribe == Init /\ [][NextDescribe]_vars

(***************************************************************************)
(* A fetch_many request of the facade: the caller fills a bag and calls     *)
(* fetch_many, the consumer polls the stream, the backend's run and its     *)
(* stream answer as the server makes them.  The persistent flag is handed   *)
(* through to run and is left out.                                          *)
(***************************************************************************)
FetchQueries ==
    {<<>>,
     <<Occurrence(Positioned(0), FALSE)>>,
     <<Occurrence(Named("a"), FALSE)>>,
     <<Occurrence(Named("a"), TRUE)>>,
     <<Occurrence(Positioned(0), FALSE), Occurrence(Named("a"), TRUE)>>}

\* what the backend stream may produce: a result summary, rows, an error
BackendItems ==
    {Item("Left", "1"), Item("Right", "row"), Item("Right", "undecodable"),
     Item("Err", "database error")}

FetchAdd(value) ==
    /\ fm.pc = "idle"
    /\ Len(args.positional) < MaxPositional
    /\ args' = arguments_add(args, value)
    /\ UNCHANGED <<req, calls, gk, desc, fm, PgVars, TestVars, MySqlVars, NullBitMapVars>>

FetchAddNamed(name, value) ==
    /\ fm.pc = "idle"
    /\ args' = arguments_add_named(args, name, value)
    /\ UNCHANGED <<req, calls, gk, desc, fm, PgVars, TestVars, MySqlVars, NullBitMapVars>>

\* fetch_many(query, _, Some(arguments)): the stream is built, nothing runs
FetchMany(backend, query, converts) ==
    /\ fm.pc = "idle"
    /\ fm' = [fm EXCEPT !.pc = "created", !.backend = backend, !.query = query,
                        !.arguments = Some(args), !.converts = converts]
    /\ UNCHANGED <<args, req, calls, gk, desc, PgVars, TestVars, MySqlVars, NullBitMapVars>>

\* fetch_many(query, _, None)
FetchManyNoArgs(backend, query) ==
    /\ fm.pc = "idle"
    /\ args = EmptyArguments
    /\ fm' = [fm EXCEPT !.pc = "created", !.backend = backend, !.query = query]
    /\ UNCHANGED <<args, req, calls, gk, desc, PgVars, TestVars, MySqlVars, NullBitMapVars>>

\* the first poll: the body runs up to the loop
FetchStart(run_ok) ==
    /\ fm.pc = "created"
    /\ fm' = fetch_start(fm,
                 IF fm.backend = "MySql"
                 THEN mysql_sql_and_args(fm.query, fm.arguments, fm.converts)
                 ELSE pg_sql_and_args(fm.query, fm.arguments, fm.converts),
                 run_ok)
    /\ UNCHANGED <<args, req, calls, gk, desc, PgVars, TestVars, MySqlVars, NullBitMapVars>>

\* s.try_next() returns the backend's next item
FetchPull(v) ==
    /\ fm.pc = "streaming"
    /\ Len(fm.source) < MaxItems
    /\ fm' = fetch_pulled(fm, v)
    /\ UNCHANGED <<args, req, calls, gk, desc, PgVars, TestVars, MySqlVars, NullBitMapVars>>

\* s.try_next() returns Ok(None): the loop ends, the body returns Ok(())
FetchEnd ==
    /\ fm.pc = "streaming"
    /\ fm' = [fm EXCEPT !.pc = "done"]
    /\ UNCHANGED <<args, req, calls, gk, desc, PgVars, TestVars, MySqlVars, NullBitMapVars>>

\* the pulled item is reduced and yielded
FetchYield ==
    /\ fm.pc = "pulled"
    /\ fm' = fetch_yield(fm)
    /\ UNCHANGED <<args, req, calls, gk, desc, PgVars, TestVars, MySqlVars, NullBitMapVars>>

NextFetch ==
    \/ \E value \in BagValues : FetchAdd(value)
    \/ \E name \in Names, value \in BagValues : FetchAddNamed(name, value)
    \/ \E backend \in Backends, query \in FetchQueries, converts \in BOOLEAN :
         FetchMany(backend, query, converts)
    \/ \E backend \in Backends, query \in FetchQueries : FetchManyNoArgs(backend, query)
    \/ \E run_ok \in BOOLEAN : FetchStart(run_ok)
    \/ \E v \in BackendItems : FetchPull(v)
    \/ FetchEnd
    \/ FetchYield

SpecFetch == Init /\ [][NextFetch]_vars

(***************************************************************************)
(* The MySQL test support: threads calling test_context concurrently, each  *)
(* building a pool and offering it to MASTER_POOL through                   *)
(* once_lock_try_insert_polyfill.  OnceLock::get_or_init is taken in the    *)
(* steps of the standard library: the check of the fast path, the Once      *)
(* that lets one caller in and makes the others wait, the closure writing   *)
(* the slot, and the completion that releases the waiters.                  *)
(***************************************************************************)
\* a Once without the running state: whoever finds it not complete goes in
call_once_unguarded(once) ==
    IF once.state = "complete"
    THEN [once |-> once, next |-> "done"]
    ELSE [once |-> [once EXCEPT !.state = "running"], next |-> "init"]

\* Once::call_once_force as get_or_init uses it
call_once(once) ==
    CASE once.state = "incomplete" ->
           [once |-> [once EXCEPT !.state = "running"], next |-> "init"]
      [] once.state = "running" -> [once |-> once, next |-> "wait"]
      [] once.state = "complete" -> [once |-> once, next |-> "done"]

\* test_context up to the call of the polyfill, and `let mut value = Some(value)`
TestContext(t, h) ==
    /\ test[t].pc = "start"
    /\ test' = [test EXCEPT ![t].pc = "get_or_init",
                            ![t].pool = PoolOf(t, h),
                            ![t].value = Some(PoolOf(t, h))]
    /\ UNCHANGED <<MASTER_POOL, PgVars, MySqlVars, NullBitMapVars, RequestVars, FacadeVars>>

\* get_or_init: `if let Some(value) = self.get() { return value }`
GetOrInit(t) ==
    /\ test[t].pc = "get_or_init"
    /\ test' = IF MASTER_POOL.state = "complete"
               THEN [test EXCEPT ![t].pc = "match", ![t].res = MASTER_POOL.value.val]
               ELSE [test EXCEPT ![t].pc = "call_once"]
    /\ UNCHANGED <<MASTER_POOL, PgVars, MySqlVars, NullBitMapVars, RequestVars, FacadeVars>>

\* get_or_init: self.initialize(f), entering the Once or waiting outside it
CallOnce(t) ==
    /\ test[t].pc = "call_once"
    /\ LET r == call_once(MASTER_POOL)
       IN  /\ r.next # "wait"
           /\ MASTER_POOL' = r.once
           /\ test' = IF r.next = "init"
                      THEN [test EXCEPT ![t].pc = "init"]
                      ELSE [test EXCEPT ![t].pc = "match", ![t].res = MASTER_POOL.value.val]
    /\ UNCHANGED <<PgVars, MySqlVars, NullBitMapVars, RequestVars, FacadeVars>>

\* the closure `|| value.take().unwrap()` and the write of the slot
InitClosure(t) ==
    /\ test[t].pc = "init"
    /\ test[t].value.some
    /\ MASTER_POOL' = [MASTER_POOL EXCEPT !.value = Some(test[t].value.val),
                                          !.inits = @ + 1]
    /\ test' = [test EXCEPT ![t].pc = "completing", ![t].value = None]
    /\ UNCHANGED <<PgVars, MySqlVars, NullBitMapVars, RequestVars, FacadeVars>>

\* the Once is set complete; get_or_init returns the slot
Complete(t) ==
    /\ test[t].pc = "completing"
    /\ MASTER_POOL' = [MASTER_POOL EXCEPT !.state = "complete"]
    /\ test' = [test EXCEPT ![t].pc = "match", ![t].res = MASTER_POOL.value.val]
    /\ UNCHANGED <<PgVars, MySqlVars, NullBitMapVars, RequestVars, FacadeVars>>

\* `match value` of the polyfill and the match of test_context on what it
\* returned, with its two assert_eq! on the connect options
Match(t) ==
    /\ test[t].pc = "match"
    /\ LET ret == IF test[t].value.some
                  THEN [ok |-> FALSE, existing |-> test[t].res,
                        rejected |-> test[t].value.val]
                  ELSE [ok |-> TRUE, existing |-> test[t].res, rejected |-> 0]
       IN  test' = IF ~ret.ok /\ Host(ret.existing) # Host(ret.rejected)
                   THEN [test EXCEPT ![t].pc = "panicked", ![t].ret = ret]
                   ELSE [test EXCEPT ![t].pc = "acquire", ![t].ret = ret,
                                     ![t].master_pool = ret.existing]
    /\ UNCHANGED <<MASTER_POOL, PgVars, MySqlVars, NullBitMapVars, RequestVars, FacadeVars>>

NextTest ==
    \/ \E t \in Threads, h \in {0, 1} : TestContext(t, h)
    \/ \E t \in Threads : GetOrInit(t)
    \/ \E t \in Threads : CallOnce(t)
    \/ \E t \in Threads : InitClosure(t)
    \/ \E t \in Threads : Complete(t)
    \/ \E t \in Threads : Match(t)

SpecTest == Init /\ [][NextTest]_vars

(***************************************************************************)
(* Properties of the server-typed wire buffer and of the bind               *)
(***************************************************************************)
\* a step that is a call of PgArgumentsInner::add or add_ref
PgAddStep == bind.pc = "build" /\ bind'.pc = "build"

\* the error the encode step of value v ends with ("" when it succeeds)
EncodeFailure(v) ==
    IF v.size_hint.hi > 0
    THEN "value size would overflow in the binary protocol encoding"
    ELSE IF v.ret = "Err" THEN "encode error"
    ELSE IF \E i \in 1..Len(v.ops) : v.ops[i].byte = Block
    THEN "value size would overflow in the binary protocol encoding"
    ELSE ""

\* C1: snapshot isolation.  Whenever the encode step of an add / add_ref call
\* fails (size hint overflow, the value's own error after it wrote bytes and
\* registered patches and type holes, realized size overflow), the call returns
\* that error and leaves buffer length, value count, number of patches and
\* number of type holes as they were before the call.
C1_SnapshotIsolation ==
    [][PgAddStep =>
        /\ pg_ret'.res.err = EncodeFailure(PgValues[pg_ret'.value])
        /\ ~pg_ret'.res.ok =>
            /\ VecLen(pg'.buffer.buffer) = VecLen(pg.buffer.buffer)
            /\ pg'.buffer.count = pg.buffer.count
            /\ Len(pg'.buffer.patches) = Len(pg.buffer.patches)
            /\ Len(pg'.buffer.type_holes) = Len(pg.buffer.type_holes)]_vars

\* a value's own encode failed, after it wrote a byte and registered a patch and
\* two type holes, on a buffer that already held values, patches and holes
C1_Witness ==
    /\ pg_ret.res.err = "encode error"
    /\ pg_ret.call = "add_ref"
    /\ pg.buffer.count = 2
    /\ Len(pg.buffer.patches) >= 1
    /\ Len(pg.buffer.type_holes) >= 2

\* C4: length-prefix round trip.  A successful encode / encode_ref appends the
\* 4-byte big-endian signed length L >= 0 followed by exactly the L bytes the
\* value wrote, or, for a value reporting NULL, the 4-byte big-endian -1 and
\* nothing else; the bytes before it are untouched.
C4_LengthPrefix ==
    [][(PgAddStep /\ pg_ret'.res.ok) =>
        LET old == pg.buffer.buffer
            new == pg'.buffer.buffer
            v == PgValues[pg_ret'.value]
            L == I32FromBe(SubSeq(new, Len(old) + 1, Len(old) + 4))
            body == SubSeq(new, Len(old) + 5, Len(new))
        IN  /\ SubSeq(new, 1, Len(old)) = old
            /\ Len(new) >= Len(old) + 4
            /\ IF v.ret = "Yes"
               THEN L = -1 /\ body = <<>>
               ELSE /\ L >= 0
                    /\ VecLen(body) = USize(L)
                    /\ body = ValueOps(EmptyPgArgumentBuffer, v.ops).buffer
            /\ VecLen(new) = USizeAdd(VecLen(old), USize(4 + Len(body)))]_vars

\* a NULL was encoded by encode_ref after a value with a body
C4_Witness ==
    /\ pg_ret.res.ok
    /\ pg_ret.call = "add_ref"
    /\ PgValues[pg_ret.value].ret = "Yes"
    /\ pg.buffer.count = 2
    /\ Len(pg.buffer.buffer) > 8
    /\ SubSeq(pg.buffer.buffer, Len(pg.buffer.buffer) - 3, Len(pg.buffer.buffer))
         = <<255, 255, 255, 255>>

\* the four bytes of v at offset
Slot(v, offset) ==
    SubSeq(v, ElemsBelow(v, offset) + 1, ElemsBelow(v, offset) + 4)

\* C9: patch ordering.  Whenever the parameter buffer has been transmitted,
\* apply_patches has returned Ok: every lookup was answered, every type hole of
\* the transmitted bytes holds the looked-up identifier and every patch
\* callback has run on them.
C9_PatchOrdering ==
    conn.wire.sent =>
        /\ bind.apply_ret = "Ok"
        /\ Len(conn.lookups) = Len(pg.buffer.type_holes)
        /\ \A j \in 1..Len(pg.buffer.type_holes) :
             LET h == pg.buffer.type_holes[j]
             IN  /\ conn.lookups[j] = [kind |-> h.kind, answer |-> "Ok"]
                 /\ Slot(conn.wire.buffer, h.offset) = U32ToBe(TypeOid(h.kind))
        /\ \A i \in 1..Len(pg.buffer.patches) :
             LET p == pg.buffer.patches[i]
             IN  SubSeq(VecFrom(conn.wire.buffer, p.buf_offset), 1, 1)
                   = CallbackBytes(p.callback, bind.parameters[p.arg_index + 1])

\* a buffer with three type holes and a patch was transmitted
C9_Witness ==
    /\ conn.wire.sent
    /\ Len(pg.buffer.type_holes) = 3
    /\ Len(pg.buffer.patches) >= 1

\* C10: lookup failure aborts the bind.  Once the lookup for the j-th type hole
\* failed, apply_patches has returned the error, no lookup was asked for any
\* later hole, and the buffer is not transmitted.
C10_LookupFailureAborts ==
    \A j \in 1..Len(conn.lookups) :
        conn.lookups[j].answer = "Err" =>
            /\ j = Len(conn.lookups)
            /\ conn.lookups[j].kind = pg.buffer.type_holes[j].kind
            /\ bind.pc = "failed"
            /\ bind.apply_ret = "Err"
            /\ ~conn.wire.sent

\* the lookup of the second of three holes failed
C10_Witness ==
    /\ Len(pg.buffer.type_holes) = 3
    /\ Len(conn.lookups) = 2
    /\ conn.lookups[2].answer = "Err"
    /\ bind.apply_ret = "Err"

(***************************************************************************)
(* Properties of the null-marker wire state                                 *)
(***************************************************************************)
\* C2: MySqlArgumentsPositional::add rollback.  When the value's encode fails,
\* however many bytes it wrote, the call returns the error with the values
\* buffer back at its content before the call and with types and null bitmap
\* untouched; when it succeeds exactly one type and one null-bitmap bit are
\* appended, after the value's bytes.
C2_MySqlAddRollback ==
    [][my_ret'.call = "add" =>
        LET value == MySqlValues[my_ret'.value]
        IN  IF value.ret = "Err"
            THEN /\ my_ret'.res = Err("encode error")
                 /\ my'.values = my.values
                 /\ my'.types = my.types
                 /\ my'.null_bitmap = my.null_bitmap
            ELSE /\ my_ret'.res.ok
                 /\ my'.values = my.values \o value.bytes
                 /\ Len(my'.types) = Len(my.types) + 1
                 /\ SubSeq(my'.types, 1, Len(my.types)) = my.types
                 /\ my'.null_bitmap.length = my.null_bitmap.length + 1]_vars

\* a value failed after writing two bytes onto a buffer that held two values
C2_Witness ==
    /\ ~my_ret.res.ok
    /\ Len(MySqlValues[my_ret.value].bytes) = 2
    /\ Len(my.types) = 2
    /\ Len(my.values) >= 2

ExamplePushes == <<"Yes", "No", "Yes", "No", "Yes", "No", "Yes", "No", "Yes">>

\* C3: null bitmap packing.  After n pushes onto an empty bitmap it holds
\* ceil(n / 8) bytes, bit (i mod 8) from the least significant bit of byte
\* (i div 8) is 1 exactly when the i-th flag pushed was Yes, every bit from
\* position n on is 0, and the nine flags yes,no,...,yes give [0b01010101, 0b1].
C3_NullBitMapPacking ==
    LET n == Len(pushed)
    IN  /\ bit_map.length = n
        /\ Len(bit_map.bytes) = (n + (U8_BITS - 1)) \div U8_BITS
        /\ \A i \in 0..(U8_BITS * Len(bit_map.bytes) - 1) :
             Bit(bit_map.bytes[(i \div U8_BITS) + 1], i % U8_BITS)
               = IF i < n /\ pushed[i + 1] = "Yes" THEN 1 ELSE 0
        /\ \A k \in 1..Len(bit_map.bytes) : bit_map.bytes[k] \in 0..255
        /\ pushed = ExamplePushes => bit_map.bytes = <<85, 1>>

\* the nine pushes of the example were made
C3_Witness == pushed = ExamplePushes /\ bit_map.bytes = <<85, 1>>

(***************************************************************************)
(* Properties of placeholder expansion.  A finished request holds the bag   *)
(* it was called with (req.arguments), its query and what it returned.      *)
(***************************************************************************)
\* the request ran the rewrite: a bag was passed and converted
Expanded ==
    req.pc = "done" /\ req.arguments.some /\ req.ret.err # Encode("argument conversion")

\* the bag holds a value under the index
BagHolds(bag, index) ==
    IF index.tag = "Positioned"
    THEN index.pos + 1 \in DOMAIN bag.positional
    ELSE index.name \in DOMAIN bag.named

BagValue(bag, index) ==
    IF index.tag = "Positioned" THEN bag.positional[index.pos + 1] ELSE bag.named[index.name]

\* the occurrence has a value, and a sequence where it asks for expansion
Resolves(bag, o) ==
    BagHolds(bag, o.index) /\ (o.kleene => BoundValues[BagValue(bag, o.index)].is_vector)

\* the values a resolving occurrence stands for, in element order
Elements(bag, o) ==
    IF o.kleene THEN BoundValues[BagValue(bag, o.index)].elems
    ELSE <<BagValue(bag, o.index)>>

\* the values of the first i occurrences
RECURSIVE Flat(_, _, _)
Flat(bag, query, i) ==
    IF i = 0 THEN <<>> ELSE Flat(bag, query, i - 1) \o Elements(bag, query[i])

\* the position of the first value of occurrence i
Pos(bag, query, i) == Len(Flat(bag, query, i - 1)) + 1

\* the value's own encode step fails on the backend
EncodeFails(backend, value) ==
    IF backend = "MySql"
    THEN MySqlValues[BoundValues[value].my].ret = "Err"
    ELSE EncodeFailure(PgValues[BoundValues[value].pg]) # ""

\* the occurrence cannot be rewritten
Fails(backend, bag, o) ==
    \/ ~Resolves(bag, o)
    \/ \E e \in 1..Len(Elements(bag, o)) : EncodeFails(backend, Elements(bag, o)[e])

\* the bytes one value takes in a positional buffer of the backend
Chunk(backend, value) ==
    IF backend = "MySql" THEN MySqlValues[BoundValues[value].my].bytes
    ELSE LET v == PgValues[BoundValues[value].pg]
             body == ValueOps(EmptyPgArgumentBuffer, v.ops).buffer
         IN  IF v.ret = "Yes" THEN I32ToBe(-1) ELSE I32ToBe(Len(body)) \o body

\* the type one value declares in a positional buffer of the backend
ChunkType(backend, value) ==
    LET v == IF backend = "MySql" THEN MySqlValues[BoundValues[value].my]
             ELSE PgValues[BoundValues[value].pg]
    IN  IF v.produces # "" THEN v.produces ELSE v.type_info

\* the bytes of the first p of the values
RECURSIVE Chunks(_, _, _)
Chunks(backend, values, p) ==
    IF p = 0 THEN <<>> ELSE Chunks(backend, values, p - 1) \o Chunk(backend, values[p])

\* the bytes of a positional buffer, and the bytes of its p-th value
Bytes(backend, a) == IF backend = "MySql" THEN a.values ELSE a.buffer.buffer

SliceAt(backend, a, values, p) ==
    SubSeq(Bytes(backend, a), Len(Chunks(backend, values, p - 1)) + 1,
           Len(Chunks(backend, values, p)))

\* n native placeholders from position first on, joined by the separator
Placeholders(backend, first, n) ==
    IF n = 0 THEN <<>>
    ELSE [k \in 1..(2 * n - 1) |->
            IF k % 2 = 1 THEN Native(backend, first + (k \div 2)) ELSE Sep]

\* the SQL text up to the literal span after occurrence i
RECURSIVE ExpectedSql(_, _, _, _)
ExpectedSql(backend, bag, query, i) ==
    IF i = 0 THEN <<Lit(0)>>
    ELSE ExpectedSql(backend, bag, query, i - 1)
           \o Placeholders(backend, Pos(bag, query, i), Len(Elements(bag, query[i])))
           \o <<Lit(i)>>

IsNative(token) == token.t = "native"

\* C5: placeholder expansion is all-or-nothing.  When resolving or encoding
\* any occurrence of the query fails (unknown reference, expansion marker on a
\* value without a length, an element's encode error), whichever occurrence it
\* is, the request returns an error and hands the caller neither SQL text nor
\* a positional buffer.
C5_AllOrNothing ==
    (req.pc = "done" /\ req.arguments.some
       /\ \E i \in 1..Len(req.query) :
            Fails(req.backend, req.arguments.val, req.query[i]))
    => /\ ~req.ret.ok
       /\ req.ret.err \in {"unknown argument", "expected vector for argument",
                            "encode error", Encode("argument conversion")}
       /\ req.ret.sql = <<>>
       /\ req.ret.args = None

\* the second element of the last of three occurrences failed to encode, after
\* two occurrences and one element were rewritten
C5_Witness ==
    /\ Expanded
    /\ Len(req.query) = 3
    /\ ~Fails(req.backend, req.arguments.val, req.query[1])
    /\ ~Fails(req.backend, req.arguments.val, req.query[2])
    /\ req.query[3].kleene
    /\ Resolves(req.arguments.val, req.query[3])
    /\ Fails(req.backend, req.arguments.val, req.query[3])
    /\ req.ret = Failed("encode error")

\* C6: vector expansion count.  When every occurrence resolves and encodes,
\* the request succeeds; an occurrence with the expansion marker whose value
\* has n elements becomes n native placeholders joined by the separator and n
\* values in element order, a scalar occurrence one placeholder and one value,
\* so the buffer counts the sum of these; each value is encoded on its own.
C6_VectorExpansionCount ==
    Expanded =>
        LET bag == req.arguments.val
            n == Len(req.query)
            values == Flat(bag, req.query, n)
        IN  /\ (\A i \in 1..n : ~Fails(req.backend, bag, req.query[i])) => req.ret.ok
            /\ req.ret.ok =>
                 /\ req.ret.args.some
                 /\ req.ret.sql = ExpectedSql(req.backend, bag, req.query, n)
                 /\ Len(req.ret.args.val.types) = Len(values)
                 /\ req.backend = "MySql" =>
                      req.ret.args.val.null_bitmap.length = Len(values)
                 /\ req.backend = "Postgres" =>
                      req.ret.args.val.buffer.count = Len(values)
                 /\ req.ret.args.val.types
                      = [p \in 1..Len(values) |-> ChunkType(req.backend, values[p])]
                 /\ Bytes(req.backend, req.ret.args.val)
                      = Chunks(req.backend, values, Len(values))

\* `in (:a*)` with a bound to a sequence of three: three placeholders, three values
C6_Witness ==
    /\ Expanded
    /\ req.ret.ok
    /\ req.query = <<Occurrence(Named("a"), TRUE)>>
    /\ Len(BoundValues[req.arguments.val.named["a"]].elems) = 3
    /\ Len(SelectSeq(req.ret.sql, IsNative)) = 3
    /\ Len(req.ret.args.val.types) = 3

\* C7: named reuse.  When occurrences i < j reference the same name or the same
\* position (and the whole query resolves and encodes), the request succeeds,
\* the placeholders written are distinct positions in textual order, the value
\* is encoded once for each of the two occurrences with the same bytes and
\* the same declared type, and the bag still holds what it held.
C7_NamedReuse ==
    (Expanded /\ \A i \in 1..Len(req.query) :
                    ~Fails(req.backend, req.arguments.val, req.query[i]))
    => LET bag == req.arguments.val
           n == Len(req.query)
           values == Flat(bag, req.query, n)
       IN  \A i, j \in 1..n :
             (i < j /\ req.query[i] = req.query[j]) =>
               /\ req.ret.ok
               /\ args = bag
               /\ SelectSeq(req.ret.sql, IsNative)
                    = [p \in 1..Len(values) |-> Native(req.backend, p)]
               /\ \A e \in 0..(Len(Elements(bag, req.query[i])) - 1) :
                    LET pi == Pos(bag, req.query, i) + e
                        pj == Pos(bag, req.query, j) + e
                        a == req.ret.args.val
                    IN  /\ pi < pj
                        /\ SliceAt(req.backend, a, values, pi)
                             = Chunk(req.backend, Elements(bag, req.query[i])[e + 1])
                        /\ SliceAt(req.backend, a, values, pj)
                             = SliceAt(req.backend, a, values, pi)
                        /\ a.types[pi] = a.types[pj]
                        /\ a.types[pi]
                             = ChunkType(req.backend, Elements(bag, req.query[i])[e + 1])

\* `:a` three times on PostgreSQL: $1, $2, $3 and three equal values
C7_Witness ==
    /\ Expanded
    /\ req.ret.ok
    /\ req.backend = "Postgres"
    /\ req.query = [i \in 1..3 |-> Occurrence(Named("a"), FALSE)]
    /\ req.ret.sql = <<Lit(0), Native("Postgres", 1), Lit(1), Native("Postgres", 2),
                       Lit(2), Native("Postgres", 3), Lit(3)>>
    /\ req.ret.args.val.buffer.count = 3
    /\ args = req.arguments.val

\* the first occurrence of the query that references nothing in the bag
FirstUnknown(bag, query) ==
    CHOOSE i \in 1..Len(query) :
        /\ ~BagHolds(bag, query[i].index)
        /\ \A j \in 1..(i - 1) : BagHolds(bag, query[j].index)

IsAdd(call) == call.op = "add"

\* the values of the add calls made, in the order they were made
AddedValues == [i \in 1..Len(SelectSeq(calls, IsAdd)) |-> SelectSeq(calls, IsAdd)[i].value]

\* the add_named calls made under a name
NamedCalls(name) == {i \in 1..Len(calls) : calls[i].op = "add_named" /\ calls[i].name = name}

\* the value of the latest add_named call under a name
LastNamed(name) ==
    LET last == CHOOSE i \in NamedCalls(name) : \A j \in NamedCalls(name) : j <= i
    IN  calls[last].value

\* C13: argument bag len().  After any sequence of add and add_named calls,
\* len() is the number of add calls made and the positional values are the
\* added ones in bind order; so each add raises len() by one and appends after
\* the earlier values, and add_named changes neither.
C13_BagLen ==
    /\ [](arguments_len(args) = Len(SelectSeq(calls, IsAdd)))
    /\ [](args.positional = AddedValues)
    /\ [][(calls' # calls /\ ~IsAdd(calls'[Len(calls')]))
            => (arguments_len(args') = arguments_len(args)
                /\ args'.positional = args.positional)]_vars
    /\ [][(calls' # calls /\ IsAdd(calls'[Len(calls')]))
            => (arguments_len(args') = arguments_len(args) + 1
                /\ args'.positional
                     = Append(args.positional, calls'[Len(calls')].value))]_vars

\* two adds around an add_named: len() is 2
C13_Witness ==
    /\ Len(calls) = 3
    /\ calls[1].op = "add" /\ calls[2].op = "add_named" /\ calls[3].op = "add"
    /\ calls[1].value # calls[3].value
    /\ arguments_len(args) = 2

\* C14: add_named is last-write-wins.  Looking up Named(n) gives the value of
\* the latest add_named(n, _) call and nothing for a name never added (so a
\* later call replaces the earlier value and leaves other names alone), and
\* the positioned indexes reach the added values only, never a named one.
C14_LastWriteWins ==
    /\ \A n \in BagNames \cup {"c"} :
         /\ mysql_get(args, Named(n))
              = IF NamedCalls(n) = {} THEN None ELSE Some(LastNamed(n))
         /\ pg_get(args, Named(n)) = mysql_get(args, Named(n))
    /\ \A i \in 0..MaxCalls :
         /\ mysql_get(args, Positioned(i))
              = IF i < Len(AddedValues) THEN Some(AddedValues[i + 1]) ELSE None
         /\ pg_get(args, Positioned(i)) = mysql_get(args, Positioned(i))

\* a was bound twice with different values, b once in between
C14_Witness ==
    /\ Len(calls) = 3
    /\ calls[1] = [op |-> "add_named", name |-> "a", value |-> 1]
    /\ calls[2] = [op |-> "add_named", name |-> "b", value |-> 5]
    /\ calls[3] = [op |-> "add_named", name |-> "a", value |-> 4]
    /\ mysql_get(args, Named("a")) = Some(4)
    /\ mysql_get(args, Named("b")) = Some(5)
    /\ mysql_get(args, Positioned(0)) = None

(***************************************************************************)
(* Properties of the positional buffers' len()                              *)
(***************************************************************************)
\* C15: positional buffer len().  After any sequence of add calls on an empty
\* buffer, len() is the number of arguments successfully added (one declared
\* type each), whatever the number of bytes they encoded to, for
\* PgArgumentsInner as for MySqlArgumentsPositional.
C15_PositionalLen ==
    /\ pg_len(pg) = USize(Len(pg.types))
    /\ mysql_len(my) = Len(my.types)

\* the half of C15 that MySqlArgumentsPositional keeps: len() counts the
\* values added, a failed add leaves it unchanged
C15_MySqlLen ==
    [][my_ret'.call = "add" =>
        mysql_len(my') = mysql_len(my) + (IF my_ret'.res.ok THEN 1 ELSE 0)]_vars

(***************************************************************************)
(* Properties of get_kind.  gk.log holds the calls made so far, gk.log's    *)
(* last entry the call a step just made; the bag is the one it was made on. *)
(***************************************************************************)
\* the step is a call of get_kind
IsGetKind == Len(gk'.log) = Len(gk.log) + 1

LastKind == gk'.log[Len(gk'.log)]

ReturnedVector(e) == e.res.ok /\ e.res.val.tag = "Vector"

\* C19: get_kind.  The call returns Vector(len) exactly when the placeholder
\* carries the expansion marker and the bound value reports a length, and len
\* is that length; with the marker and a value without a length it returns
\* "expected vector for argument"; without the marker it returns Scalar, for
\* a sequence too; an index the bag does not hold gives "unknown argument"
\* whatever the marker, so the lookup is checked first.
C19_GetKind ==
    [][IsGetKind =>
        LET e == LastKind
            held == BagHolds(args, e.index)
            is_vector == BoundValues[BagValue(args, e.index)].is_vector
            elems == BoundValues[BagValue(args, e.index)].elems
        IN  /\ ~held => e.res = Err("unknown argument")
            /\ held /\ e.kleene /\ is_vector => e.res = Ok(Vector(Len(elems)))
            /\ held /\ e.kleene /\ ~is_vector =>
                   e.res = Err("expected vector for argument")
            /\ held /\ ~e.kleene => e.res = Ok(Scalar)
            /\ ReturnedVector(e) <=> held /\ e.kleene /\ is_vector]_vars

\* a marked placeholder on an absent argument gave "unknown argument", and a
\* marked placeholder on a sequence of three gave Vector(3)
C19_Witness ==
    /\ Len(gk.log) = 2
    /\ BagHolds(args, Named("a")) /\ BagValue(args, Named("a")) = 4
    /\ gk.log[1] = [backend |-> "MySql", index |-> Positioned(1), kleene |-> TRUE,
                    res |-> Err("unknown argument")]
    /\ gk.log[2] = [backend |-> "MySql", index |-> Named("a"), kleene |-> TRUE,
                    res |-> Ok(Vector(3))]

\* C20: the has_expansion flag.  After any series of get_kind calls sharing
\* one flag that started false, the flag is true exactly when some call
\* returned Vector; a call that returns Scalar or an error leaves the flag as
\* it was, and no call sets it back to false.
C20_HasExpansion ==
    /\ [](gk.has_expansion <=> \E i \in 1..Len(gk.log) : ReturnedVector(gk.log[i]))
    /\ [][IsGetKind /\ ~ReturnedVector(LastKind) =>
             gk'.has_expansion = gk.has_expansion]_vars
    /\ [][gk.has_expansion => gk'.has_expansion]_vars

\* a call returned Vector and raised the flag, and a later call that failed
\* on a marked scalar left it raised
C20_Witness ==
    /\ Len(gk.log) = 2
    /\ gk.has_expansion
    /\ gk.log[1].backend = "Postgres" /\ ReturnedVector(gk.log[1])
    /\ gk.log[2].backend = "Postgres"
    /\ gk.log[2].res = Err("expected vector for argument")

(***************************************************************************)
(* Properties of the facade's type reduction                                *)
(***************************************************************************)
\* the reduced kind listed for each concrete type
ReducedKinds(backend) ==
    IF backend = "MySql"
    THEN [t \in {"Null"} |-> "Null"] @@ [t \in {"Short"} |-> "SmallInt"]
         @@ [t \in {"Long"} |-> "Integer"] @@ [t \in {"LongLong"} |-> "BigInt"]
         @@ [t \in {"Float"} |-> "Real"] @@ [t \in {"Double"} |-> "Double"]
         @@ [t \in {"Blob", "TinyBlob", "MediumBlob", "LongBlob"} |-> "Blob"]
         @@ [t \in {"String", "VarString", "VarChar"} |-> "Text"]
    ELSE [t \in {"Bool"} |-> "Bool"] @@ [t \in {"Void"} |-> "Null"]
         @@ [t \in {"Int2"} |-> "SmallInt"] @@ [t \in {"Int4"} |-> "Integer"]
         @@ [t \in {"Int8"} |-> "BigInt"] @@ [t \in {"Float4"} |-> "Real"]
         @@ [t \in {"Float8"} |-> "Double"] @@ [t \in {"Bytea"} |-> "Blob"]
         @@ [t \in {"Text", "Varchar", "DeclareWithName(citext)"} |-> "Text"]

Listed(backend, t) == t \in DOMAIN ReducedKinds(backend)

Reduced(backend, column) ==
    AnyColumn(column.ordinal, column.name, AnyTypeInfo(ReducedKinds(backend)[column.type_info]))

\* the error is an unsupported-type error whose message names the type
NamesType(e, t) ==
    e.variant = "AnyDriverError" /\ \E i \in DOMAIN e.message : e.message[i] = t

\* the error is the unsupported-type error for the type, or a column error
\* that carries it as its source
Unsupported(e, t) ==
    \/ NamesType(e, t)
    \/ e.variant = "ColumnDecode" /\ NamesType(e.source[1], t)

\* the types a describe converts, in the order it converts them
DescribedTypes ==
    [i \in DOMAIN desc.columns |-> desc.columns[i].type_info]
        \o (IF desc.parameters.some /\ desc.parameters.val.side = "Left"
            THEN desc.parameters.val.val ELSE <<>>)

\* the first described type that has no reduced kind, if there is one
FirstUnlisted(types) ==
    LET unlisted == {i \in DOMAIN types : ~Listed(desc.backend, types[i])}
    IN  IF unlisted = {} THEN 0
        ELSE CHOOSE i \in unlisted : \A j \in unlisted : i <= j

\* C11: facade type reduction never silently coerces.  Converting a concrete
\* type-info gives the one reduced kind listed for it, and for every type
\* that is not listed the unsupported-type error naming the type; a column
\* with an unlisted type, and a describe with one among its columns or
\* parameters, fails with that error (for a PostgreSQL column, as the source
\* of the column's error) and produces no reduced column; with listed types
\* only, every column is reduced to its listed kind.
C11_TypeReduction ==
    /\ desc.pc = "type_info" =>
           IF Listed(desc.backend, desc.type_info)
           THEN /\ desc.ret.ok
                /\ desc.ret.val = AnyTypeInfo(ReducedKinds(desc.backend)[desc.type_info])
           ELSE ~desc.ret.ok /\ NamesType(desc.ret.err, desc.type_info)
    /\ desc.pc = "column" =>
           IF Listed(desc.backend, desc.columns[1].type_info)
           THEN desc.ret.ok /\ desc.ret.val = Reduced(desc.backend, desc.columns[1])
           ELSE ~desc.ret.ok /\ Unsupported(desc.ret.err, desc.columns[1].type_info)
    /\ desc.pc = "describe" =>
           IF FirstUnlisted(DescribedTypes) = 0
           THEN /\ desc.ret.ok
                /\ desc.ret.val.columns =
                       [i \in DOMAIN desc.columns |-> Reduced(desc.backend, desc.columns[i])]
           ELSE /\ ~desc.ret.ok
                /\ Unsupported(desc.ret.err, DescribedTypes[FirstUnlisted(DescribedTypes)])

\* a describe whose second column is a numeric failed with that column's
\* error, which carries the unsupported-type error for the numeric type
C11_Witness ==
    /\ desc.pc = "describe"
    /\ Len(desc.columns) = 2
    /\ desc.columns[1].type_info = "Int4"
    /\ desc.columns[2].type_info = "Numeric"
    /\ ~desc.ret.ok
    /\ desc.ret.err.variant = "ColumnDecode"
    /\ desc.ret.err.index = "name"
    /\ NamesType(desc.ret.err.source[1], "Numeric")

(***************************************************************************)
(* Properties of fetch_many.  fm holds the request (backend, query, bag),   *)
(* what run was handed (fm.sent, once fm.ran), the items the backend stream *)
(* produced (fm.source) and the items the facade stream yielded (fm.out).   *)
(***************************************************************************)
\* C12: facade execution runs placeholder expansion for every backend.  When
\* fetch_many is given a bag and hands the request to run, every placeholder
\* of the SQL resolved, the SQL handed over is the rewritten SQL, and the
\* positional buffer handed over holds one encoded value per placeholder
\* occurrence, in order (so a value bound by name and referenced in the SQL
\* is in it), on PostgreSQL as on MySQL.
C12_FacadeExpansion ==
    (fm.ran /\ fm.arguments.some) =>
        LET bag == fm.arguments.val
            n == Len(fm.query)
        IN  /\ \A i \in 1..n : Resolves(bag, fm.query[i])
            /\ fm.sent.sql = ExpectedSql(fm.backend, bag, fm.query, n)
            /\ fm.sent.args.some
            /\ Len(fm.sent.args.val.types) = Len(Flat(bag, fm.query, n))
            /\ Bytes(fm.backend, fm.sent.args.val)
                   = Chunks(fm.backend, Flat(bag, fm.query, n), Len(Flat(bag, fm.query, n)))

\* the item the facade stream yields for item v of the backend stream
ReducedItem(backend, v) ==
    IF v.tag = "Left" THEN Item("Left", map_result(backend, v.val))
    ELSE IF v.tag = "Err" THEN v
    ELSE IF row_try_from(v.val).ok THEN Item("Right", row_try_from(v.val).val)
    ELSE Item("Err", row_try_from(v.val).err)

\* C16: the facade result stream is lazy and order-preserving.  The stream
\* yields one item for each item the backend stream produced, in the same
\* order and of the same kind (a summary for a summary, a row for a row, the
\* error for an error or for a row that cannot be reduced); an item is yielded
\* before the next one is pulled; an error is the last item yielded and ends
\* the stream, as does the end of the backend stream, after which nothing is
\* pulled.
C16_LazyOrdered ==
    /\ [](/\ \A i \in 1..Len(fm.out) :
                i <= Len(fm.source) => fm.out[i] = ReducedItem(fm.backend, fm.source[i])
          /\ fm.source # <<>> =>
                Len(fm.source) = Len(fm.out) + (IF fm.pc = "pulled" THEN 1 ELSE 0)
          /\ \A i \in 1..Len(fm.out) :
                fm.out[i].tag = "Err" => i = Len(fm.out) /\ fm.pc = "done")
    /\ [][Len(fm'.source) > Len(fm.source) =>
             /\ fm.pc = "streaming"
             /\ Len(fm.out) = Len(fm.source)
             /\ Len(fm'.source) = Len(fm.source) + 1]_vars
    /\ [][fm.pc = "done" => fm' = fm]_vars

\* a summary, a row and a row that cannot be reduced were pulled one by one;
\* the stream yielded the summary, the row and the reduction's error, and ended
C16_Witness ==
    /\ fm.pc = "done"
    /\ fm.source = <<Item("Left", "1"), Item("Right", "row"), Item("Right", "undecodable")>>
    /\ Len(fm.out) = 3
    /\ fm.out[1].tag = "Left"
    /\ fm.out[2] = Item("Right", "AnyRow(row)")
    /\ fm.out[3].tag = "Err"

\* converting the bag, or expanding and encoding on MySQL, or encoding the
\* positional values on PostgreSQL, fails for the request
FetchFails ==
    /\ fm.arguments.some
    /\ \/ ~fm.converts
       \/ /\ fm.backend = "MySql"
          /\ \E i \in 1..Len(fm.query) :
                Fails(fm.backend, fm.arguments.val, fm.query[i])
       \/ /\ fm.backend = "Postgres"
          /\ \E i \in 1..Len(fm.arguments.val.positional) :
                EncodeFails(fm.backend, fm.arguments.val.positional[i])

OpSize(o) == IF o.op = "put" THEN 1 ELSE IF o.op = "patch" THEN 0 ELSE 4

\* the bytes the first i calls append
RECURSIVE OpsSize(_, _)
OpsSize(ops, i) == IF i = 0 THEN 0 ELSE OpsSize(ops, i - 1) + OpSize(ops[i])

\* the positions, in order, of the calls of the given kinds
OpPositions(ops, kinds) ==
    SelectSeq([i \in 1..Len(ops) |-> i], LAMBDA i : ops[i].op \in kinds)

\* what a sequence holds after its first n entries
Added(new, n) == SubSeq(new, n + 1, Len(new))

\* C21: patch registration.  Each patch call of a value's encode appends
\* exactly one patch, whose buf_offset is the buffer length at the call and
\* whose arg_index is the value count at the call, and changes nothing else:
\* it adds no byte and no type hole, and leaves earlier patches alone.  As the
\* count is incremented only after the encode succeeds, the patches of the
\* k-th value (counted from 0) carry arg_index = k.
C21_PatchRegistration ==
    [][(PgAddStep /\ pg_ret'.res.ok) =>
        LET ops == PgValues[pg_ret'.value].ops
            at == OpPositions(ops, {"patch"})
            new == Added(pg'.buffer.patches, Len(pg.buffer.patches))
            start == USizeAdd(VecLen(pg.buffer.buffer), USize(4))
        IN  /\ SubSeq(pg'.buffer.patches, 1, Len(pg.buffer.patches)) = pg.buffer.patches
            /\ Len(new) = Len(at)
            /\ \A j \in 1..Len(new) :
                 /\ new[j].arg_index = pg.buffer.count
                 /\ new[j].buf_offset = USizeAdd(start, USize(OpsSize(ops, at[j] - 1)))
                 /\ new[j].callback = ops[at[j]].name
            /\ VecLen(pg'.buffer.buffer) = USizeAdd(start, USize(OpsSize(ops, Len(ops))))
            /\ Len(pg'.buffer.type_holes) = Len(pg.buffer.type_holes)
                   + Len(OpPositions(ops, {"patch_type_by_name", "patch_array_type"}))
            /\ pg'.buffer.count = pg.buffer.count + 1]_vars

\* the second value added registered a patch: it is keyed to value 1 and to
\* the offset after the first value and the second one's length prefix
C21_Witness ==
    /\ pg_ret.res.ok
    /\ pg_ret.value = 4
    /\ pg.buffer.count = 2
    /\ Len(pg.types) = 2
    /\ pg.types[1] = "INT2"
    /\ Len(pg.buffer.patches) = 1
    /\ pg.buffer.patches[1].arg_index = 1
    /\ pg.buffer.patches[1].buf_offset = USize(10)

\* C22: type-hole reservation.  Each patch_type_by_name / patch_array_type
\* call of a value's encode extends the buffer by exactly four zero bytes and
\* appends exactly one type hole, whose offset is the buffer length before the
\* call and whose kind is the type name (resp. the array descriptor) given;
\* the patch list is not touched by it, earlier holes and all bytes before the
\* slot are unchanged.
C22_TypeHoleReservation ==
    [][(PgAddStep /\ pg_ret'.res.ok) =>
        LET ops == PgValues[pg_ret'.value].ops
            at == OpPositions(ops, {"patch_type_by_name", "patch_array_type"})
            new == Added(pg'.buffer.type_holes, Len(pg.buffer.type_holes))
            start == USizeAdd(VecLen(pg.buffer.buffer), USize(4))
        IN  /\ SubSeq(pg'.buffer.type_holes, 1, Len(pg.buffer.type_holes))
                   = pg.buffer.type_holes
            /\ Len(new) = Len(at)
            /\ \A j \in 1..Len(new) :
                 /\ new[j].offset = USizeAdd(start, USize(OpsSize(ops, at[j] - 1)))
                 /\ new[j].kind =
                       [tag |-> IF ops[at[j]].op = "patch_type_by_name"
                                THEN "Type" ELSE "Array",
                        name |-> ops[at[j]].name]
                 /\ Slot(pg'.buffer.buffer, new[j].offset) = <<0, 0, 0, 0>>
                 /\ OpsSize(ops, at[j]) = OpsSize(ops, at[j] - 1) + 4
            /\ SubSeq(pg'.buffer.buffer, 1, Len(pg.buffer.buffer)) = pg.buffer.buffer
            /\ Len(Added(pg'.buffer.buffer, Len(pg.buffer.buffer)))
                   = 4 + OpsSize(ops, Len(ops))
            /\ Len(pg'.buffer.patches) = Len(pg.buffer.patches)
                   + Len(OpPositions(ops, {"patch"}))]_vars

\* an array value reserved a slot right after its length prefix, after a
\* record value that reserved one by name
C22_Witness ==
    /\ pg_ret.res.ok
    /\ pg_ret.value = 5
    /\ pg.buffer.count = 2
    /\ Len(pg.buffer.type_holes) = 2
    /\ pg.buffer.type_holes[1].kind.tag = "Type"
    /\ pg.buffer.type_holes[2].kind.tag = "Array"
    /\ pg.buffer.type_holes[2].offset = USize(14)
    /\ Slot(pg.buffer.buffer, pg.buffer.type_holes[2].offset) = <<0, 0, 0, 0>>

(***************************************************************************)
(* Properties of apply_patches.  bind.pc leaves "build" when apply_patches  *)
(* is called; bind.hole is the hole whose lookup is awaited.                *)
(***************************************************************************)
\* the holes apply_patches has filled so far
HolesFilled ==
    IF bind.pc = "lookup" THEN bind.hole - 1
    ELSE IF bind.pc = "failed" THEN Len(conn.lookups) - 1
    ELSE Len(pg.buffer.type_holes)

\* C23: the resolution phase of apply_patches.  Every patch callback has run,
\* on the bytes at its buf_offset and with the type parameters[arg_index],
\* before the first lookup is asked; the holes are then resolved one lookup
\* at a time in registration order, by the name or descriptor the hole
\* recorded, each resolved hole's four bytes holding the identifier in
\* big-endian order while the holes not yet reached still hold zeros; and no
\* step of apply_patches changes the buffer length, the value count, the
\* types, the patches or the holes.
C23_ResolutionPhase ==
    /\ [](bind.pc \in {"lookup", "applied", "failed", "sent"} =>
            /\ \A i \in 1..Len(pg.buffer.patches) :
                 LET p == pg.buffer.patches[i]
                 IN  SubSeq(VecFrom(pg.buffer.buffer, p.buf_offset), 1, 1)
                       = CallbackBytes(p.callback, bind.parameters[p.arg_index + 1])
            /\ Len(conn.lookups) =
                  IF bind.pc = "lookup" THEN bind.hole
                  ELSE IF bind.pc = "failed" THEN HolesFilled + 1
                  ELSE Len(pg.buffer.type_holes)
            /\ \A j \in 1..Len(conn.lookups) :
                 conn.lookups[j].kind = pg.buffer.type_holes[j].kind
            /\ \A j \in 1..Len(pg.buffer.type_holes) :
                 LET h == pg.buffer.type_holes[j]
                 IN  Slot(pg.buffer.buffer, h.offset) =
                       IF j <= HolesFilled THEN U32ToBe(TypeOid(h.kind))
                       ELSE <<0, 0, 0, 0>>)
    /\ [][bind'.pc # "build" =>
             /\ VecLen(pg'.buffer.buffer) = VecLen(pg.buffer.buffer)
             /\ pg'.buffer.count = pg.buffer.count
             /\ pg'.types = pg.types
             /\ pg'.buffer.patches = pg.buffer.patches
             /\ pg'.buffer.type_holes = pg.buffer.type_holes]_vars

\* the patch of the second value has run with the second parameter's type,
\* the first of three holes is filled and the lookup of the second is awaited
C23_Witness ==
    /\ bind.pc = "lookup"
    /\ bind.hole = 2
    /\ Len(pg.buffer.type_holes) = 3
    /\ Len(pg.buffer.patches) = 1
    /\ pg.buffer.patches[1].arg_index = 1
    /\ bind.parameters[1] # bind.parameters[2]
    /\ Slot(pg.buffer.buffer, pg.buffer.type_holes[1].offset)
          = U32ToBe(TypeOid(pg.buffer.type_holes[1].kind))
    /\ Slot(pg.buffer.buffer, pg.buffer.type_holes[2].offset) = <<0, 0, 0, 0>>

(***************************************************************************)
(* Properties of the 32-bit length limit                                    *)
(***************************************************************************)
Overflow == "value size would overflow in the binary protocol encoding"

WithinInt4(size) == USizeLe(size, USize(I32_MAX))

\* a step that is a call of PgArgumentBuffer::encode or encode_ref
EncodeStep == pg_ret' # pg_ret /\ pg_ret'.call \in {"encode", "encode_ref"}

\* C24: the 32-bit length limit.  value_size_int4_checked(size) returns
\* Ok(size) exactly when size <= 2^31 - 1 and the overflow error otherwise.
\* encode / encode_ref check the size hint before they write anything: with a
\* hint above the limit they fail and the buffer is what it was.  They check
\* the realized size after the value's encode: a value that wrote more than
\* the limit fails, and the four bytes reserved for its length are left as
\* reserved, never given a length.
C24_Int4Limit ==
    /\ [](pg_ret.call = "value_size_int4_checked" =>
            LET size == Sizes[pg_ret.value]
            IN  IF WithinInt4(size)
                THEN pg_ret.res.ok /\ USize(pg_ret.res.val) = size
                ELSE ~pg_ret.res.ok /\ pg_ret.res.err = Overflow)
    /\ [][EncodeStep =>
            LET v == PgValues[pg_ret'.value]
                old == pg.buffer.buffer
                new == pg'.buffer.buffer
                body == SubSeq(new, Len(old) + 5, Len(new))
            IN  /\ ~WithinInt4(v.size_hint) =>
                     ~pg_ret'.res.ok /\ pg_ret'.res.err = Overflow /\ pg' = pg
                /\ (WithinInt4(v.size_hint) /\ v.ret = "No" /\ ~WithinInt4(VecLen(body))) =>
                     /\ ~pg_ret'.res.ok
                     /\ pg_ret'.res.err = Overflow
                     /\ SubSeq(new, Len(old) + 1, Len(old) + 4) = <<0, 0, 0, 0>>
                /\ pg_ret'.res.ok =>
                     WithinInt4(v.size_hint) /\ WithinInt4(VecLen(body))]_vars

\* after a value that encoded, a value whose body is larger than the limit
\* failed in encode: its bytes are in the buffer behind four zero bytes
C24_Witness ==
    /\ pg_ret.call = "encode"
    /\ PgValues[pg_ret.value].name = "big_body"
    /\ pg_ret.res.err = Overflow
    /\ Len(pg.buffer.buffer) = 12
    /\ SubSeq(pg.buffer.buffer, 1, 4) = I32ToBe(2)
    /\ SubSeq(pg.buffer.buffer, 7, 10) = <<0, 0, 0, 0>>
    /\ pg.buffer.buffer[12] = Block

(***************************************************************************)
(* Properties of the PostgreSQL placeholder                                 *)
(***************************************************************************)
DollarN == <<"$0", "$1", "$2", "$3", "$4", "$5">>

\* the add calls among the first n calls
AddsBefore(n) == Cardinality({j \in 1..n : calls[j].op = "add"})

PastPolyfill(t) == test[t].pc \in {"acquire", "panicked"}

\* C26: the master pool is initialised once.  Under every interleaving of
\* the threads calling test_context, the slot of MASTER_POOL is written at
\* most once and was written before any caller returns; the polyfill
\* returns Ok(inserted) to one caller, the one whose pool is stored, and
\* Err((existing, rejected)) with the stored pool and the caller's own to
\* every other; every caller that goes on does so with the stored pool; and
\* the stored pool is never replaced.
C26_InitOnce ==
    /\ [](MASTER_POOL.inits <= 1)
    /\ [](Cardinality({t \in Threads : PastPolyfill(t) /\ test[t].ret.ok}) <= 1)
    /\ []((\A t \in Threads : PastPolyfill(t))
            => Cardinality({t \in Threads : test[t].ret.ok}) = 1)
    /\ [](\A t \in Threads : PastPolyfill(t) =>
            /\ MASTER_POOL.state = "complete"
            /\ MASTER_POOL.inits = 1
            /\ test[t].ret.existing = MASTER_POOL.value.val
            /\ IF test[t].ret.ok
               THEN MASTER_POOL.value = Some(test[t].pool)
               ELSE /\ test[t].ret.rejected = test[t].pool
                    /\ MASTER_POOL.value # Some(test[t].pool))
    /\ [](\A t \in Threads : test[t].pc = "acquire" =>
            test[t].master_pool = MASTER_POOL.value.val)
    /\ [][MASTER_POOL.value.some => MASTER_POOL'.value = MASTER_POOL.value]_vars

\* every thread is past the polyfill: the second one's pool is stored, the
\* other two got it back as the existing one
C26_Witness ==
    /\ \A t \in Threads : test[t].pc = "acquire"
    /\ test[2].ret.ok
    /\ MASTER_POOL.value = Some(test[2].pool)
    /\ \A t \in Threads \ {2} :
         /\ ~test[t].ret.ok
         /\ test[t].ret.existing = test[2].pool
         /\ test[t].ret.rejected = test[t].pool
         /\ test[t].master_pool = test[2].pool

(***************************************************************************)
(* Properties the parameter buffer keeps between add calls                  *)
(***************************************************************************)
\* C27: types and count.  The recorded types are as many as the buffer's
\* count says, and both are the number of adds that succeeded: the buffer
\* starts with none, an add / add_ref that succeeds appends one type, the
\* one its value produces when it overrides the declared one and else the
\* declared one, and raises the count by one, and an add that fails leaves
\* both as they were.
C27_TypesAndCount ==
    /\ [](Len(pg.types) = pg.buffer.count)
    /\ [][PgAddStep =>
            LET v == PgValues[pg_ret'.value]
                ty == IF v.produces = "" THEN v.type_info ELSE v.produces
            IN  IF pg_ret'.res.ok
                THEN /\ pg'.types = Append(pg.types, ty)
                     /\ pg'.buffer.count = pg.buffer.count + 1
                ELSE /\ pg'.types = pg.types
                     /\ pg'.buffer.count = pg.buffer.count]_vars
    /\ [][~PgAddStep =>
            pg'.types = pg.types /\ pg'.buffer.count = pg.buffer.count]_vars

\* a record that produces its own type, a value of a declared type, and a
\* failed add after them
C27_Witness ==
    /\ pg.types = <<"MOOD_PAIR", "INT2">>
    /\ pg.buffer.count = 2
    /\ pg_ret.call = "add"
    /\ ~pg_ret.res.ok
    /\ bind.pc = "build"

\* C28: patches and holes stay in bounds.  After any sequence of add calls,
\* failed ones among them, every pending patch starts at or before the end
\* of the buffer and belongs to a value that is counted, and every type
\* hole's four bytes lie within the buffer; so an apply_patches that is
\* given one parameter type per value finds a type for every patch and a
\* slot for every hole.
C28_InBounds ==
    /\ \A i \in 1..Len(pg.buffer.patches) :
         LET p == pg.buffer.patches[i]
         IN  /\ USizeLe(p.buf_offset, VecLen(pg.buffer.buffer))
             /\ p.arg_index >= 0
             /\ p.arg_index < pg.buffer.count
             /\ bind.pc # "build" => p.arg_index + 1 \in DOMAIN bind.parameters
    /\ \A j \in 1..Len(pg.buffer.type_holes) :
         LET h == pg.buffer.type_holes[j]
         IN  /\ USizeLe(USizeAdd(h.offset, USize(4)), VecLen(pg.buffer.buffer))
             /\ Len(Slot(pg.buffer.buffer, h.offset)) = 4

\* a value with a patch and a hole and a value with a hole were added, and
\* apply_patches is at its first lookup
C28_Witness ==
    /\ pg.types = <<"MOOD_PAIR", "MOOD[]">>
    /\ Len(pg.buffer.patches) = 1
    /\ Len(pg.buffer.type_holes) = 2
    /\ pg.buffer.type_holes[2].offset = USize(14)
    /\ VecLen(pg.buffer.buffer) = USize(19)
    /\ bind.pc = "lookup"

(***************************************************************************)
(* Properties the MySQL wire state keeps between add calls                  *)
(***************************************************************************)
\* bit i (from 0) of a null bitmap
BitAt(bm, i) == Bit(bm.bytes[(i \div U8_BITS) + 1], i % U8_BITS)

\* C29: types and null bits.  MySqlArgumentsPositional has one null-bitmap
\* bit per recorded type, the bitmap holds ceil(n / 8) bytes for its n bits,
\* len() is n, and n is the number of adds that succeeded: an add that
\* succeeds appends one type and one bit, set exactly when the value encoded
\* as NULL, after the bits already there, and an add that fails appends
\* neither.
C29_TypesAndBits ==
    /\ [](Len(my.types) = my.null_bitmap.length)
    /\ [](Len(my.null_bitmap.bytes)
            = (my.null_bitmap.length + (U8_BITS - 1)) \div U8_BITS)
    /\ [](mysql_len(my) = my.null_bitmap.length)
    /\ [][my_ret'.call = "add" =>
            LET n == my.null_bitmap.length
                value == MySqlValues[my_ret'.value]
            IN  IF my_ret'.res.ok
                THEN /\ Len(my'.types) = n + 1
                     /\ my'.null_bitmap.length = n + 1
                     /\ BitAt(my'.null_bitmap, n) = IF value.ret = "Yes" THEN 1 ELSE 0
                     /\ \A i \in 0..(n - 1) :
                          BitAt(my'.null_bitmap, i) = BitAt(my.null_bitmap, i)
                ELSE /\ Len(my'.types) = n
                     /\ my'.null_bitmap.length = n]_vars

\* nine values were added, the second and the ninth of them NULL, so that
\* the bitmap went into its second byte
C29_Witness ==
    /\ Len(my.types) = 9
    /\ mysql_len(my) = 9
    /\ Len(my.values) < 9
    /\ my.null_bitmap = [bytes |-> <<2, 1>>, length |-> 9]
    /\ my_ret.res.ok
    /\ MySqlValues[my_ret.value].ret = "Yes"

(***************************************************************************)
(* Properties of a failed add                                               *)
(***************************************************************************)
\* C30: a failed add keeps what was there.  After a PgArgumentsInner add /
\* add_ref that failed, every byte below the length the buffer had before
\* the call, every type recorded before it and every patch and type hole
\* registered before it (offset, owning value, kind) is what it was; after a
\* MySqlArgumentsPositional add that failed, so is every byte of the values
\* buffer, every type and every bit of the null bitmap.
C30_FailedAddKeeps ==
    /\ [][((pg' # pg \/ pg_ret' # pg_ret) /\ ~pg_ret'.res.ok) =>
            /\ Len(pg'.buffer.buffer) >= Len(pg.buffer.buffer)
            /\ SubSeq(pg'.buffer.buffer, 1, Len(pg.buffer.buffer)) = pg.buffer.buffer
            /\ pg'.types = pg.types
            /\ Len(pg'.buffer.patches) >= Len(pg.buffer.patches)
            /\ SubSeq(pg'.buffer.patches, 1, Len(pg.buffer.patches)) = pg.buffer.patches
            /\ Len(pg'.buffer.type_holes) >= Len(pg.buffer.type_holes)
            /\ SubSeq(pg'.buffer.type_holes, 1, Len(pg.buffer.type_holes))
                 = pg.buffer.type_holes]_vars
    /\ [][((my' # my \/ my_ret' # my_ret) /\ ~my_ret'.res.ok) =>
            /\ Len(my'.values) >= Len(my.values)
            /\ SubSeq(my'.values, 1, Len(my.values)) = my.values
            /\ my'.types = my.types
            /\ my'.null_bitmap.length >= my.null_bitmap.length
            /\ \A i \in 0..(my.null_bitmap.length - 1) :
                 BitAt(my'.null_bitmap, i) = BitAt(my.null_bitmap, i)]_vars

\* a MySQL add failed, after writing two bytes, on a state that held a NULL
\* and two other values
C30_Witness ==
    /\ my_ret.res.err = "encode error"
    /\ MySqlValues[my_ret.value].name = "failing"
    /\ my.types = <<"LONG", "VAR_STRING", "BLOB">>
    /\ my.values = <<7, 1, 97>>
    /\ my.null_bitmap = [bytes |-> <<2>>, length |-> 3]

=============================================================================
